---- MODULE Spec2Model ----
(***************************************************************************)
(* Relief pipeline of RaisedEdgeEdit: silhouette mask, capped distance     *)
(* field, edge profiles, depth raster and height-field mesh.               *)
(*                                                                         *)
(* Numbers.  The distance field only ever holds -1, maxDistance and sums   *)
(* of steps 1 and sqrt(2), so a distance is kept exactly as a pair         *)
(* <<a, b>> standing for a + b*sqrt(2).  IEEE rounding of the JavaScript   *)
(* doubles is not modelled: arithmetic is that of the reals.               *)
(***************************************************************************)
EXTENDS Integers, Sequences, FiniteSets, TLC

VARIABLES
    width,        \* raster width  (calculateDistanceFieldFast parameter)
    height,       \* raster height
    contour,      \* boolean[] mask, index y*width+x
    maxDistance,  \* cap of the distance field (a lattice number)
    distances,    \* number[] distance field
    queue,        \* Array<{x, y, dist}> frontier, never shrinks
    queueIndex,   \* read position in queue (0-based)
    pc,           \* position inside calculateDistanceFieldFast
    call,         \* a call of an edge-profile function: its name and arguments
    ret,          \* the value that call returned
    fpc,          \* "call" before the profile function has run, "returned" after
    source,       \* sourceImageData: [width, height, data], data[i] = <<R, G, B, A>>
    options,      \* EdgeProcessorOptions: [edgeType, edgeWidth, chamferAngle]
    toggles,      \* [enableDPIOptimization, enableEdgeSmoothing, smoothingStrength]
    processed,    \* processedImageData, the raster processImageWithEdges returned
    output,       \* the raster processImageWithEdgesOptimized returned
    distanceField,\* the distanceField local of processImageWithEdges, <<>> while unassigned
    ppc,          \* position inside processImageWithEdgesOptimized
    props,        \* props of PreciseDepthMapModel, with the raster behind depthMapUrl
    imageData,    \* the imageData state of PreciseDepthMapModel, <<>> while null
    geometry,     \* the geometry memo: [gridWidth, gridHeight, vertices, faces, normals]
    mpc,          \* "loading", "loaded" or "built"
    earlier,      \* the result an earlier identical run returned, <<>> before any
    app,          \* state and refs of the App component
    timers,       \* the pending window.setTimeout timers: [id, due, imageData, params]
    now,          \* the clock, in milliseconds
    hist,         \* what has happened: the number of events, the time of the last
                  \* arming, the timer runs since, the parameter changes since the last
                  \* timer run, the last call of the pipeline
    exportOptions,\* STLExportOptions: [grayscaleData, height], height in tenths of a mm
    stlContent,   \* the text generateSTLFromGrayscale returned, as its lines
    xpc           \* "call" before generateSTLFromGrayscale has run, "returned" after

dfVars == <<width, height, contour, maxDistance, distances, queue, queueIndex, pc>>

fnVars == <<call, ret, fpc>>

edgeVars == <<source, options, toggles, processed, output, distanceField, ppc>>

meshVars == <<props, imageData, geometry, mpc>>

appVars == <<app, timers, now, hist>>

stlVars == <<exportOptions, stlContent, xpc>>

runVars == <<earlier, appVars, stlVars>>

vars == <<dfVars, fnVars, edgeVars, meshVars, runVars>>

(***************************************************************************)
(* Bounds of the model.                                                    *)
(***************************************************************************)
RasterN == 5        \* distance-field rasters are RasterN x RasterN
MaxEdgeWidth == 3   \* maxDistance / edgeWidth ranges over 1..MaxEdgeWidth
MaxStraight == 4    \* profile inputs a + b*sqrt(2): a in 0..MaxStraight
MaxDiagonal == 4    \*                               b in 0..MaxDiagonal
MaxProfileWidth == 6 \* edgeWidth of a profile call ranges over 1..MaxProfileWidth
RasterE == 4        \* source rasters of the depth pipeline are RasterE x RasterE
RasterD == 3        \* source rasters of the pipeline with DPI optimization
RasterU == 3        \* rasters handed to edgePreservingUpscale are RasterU x RasterU
MeshW == 9          \* depth rasters of the mesh are 1..MeshW wide
MeshH == 9          \* and 1..MeshH high
RasterA == 2        \* rasters loaded into the App are RasterA x RasterA
MaxEvents == 3      \* file selections and parameter changes of one App behaviour
MaxTime == 600      \* the clock stops at MaxTime milliseconds
TickMs == 100       \* the clock advances in steps of TickMs milliseconds
RasterS == 3        \* rasters exported as STL are 1..RasterS wide and high

(***************************************************************************)
(* Exact arithmetic on a + b*sqrt(2).                                      *)
(***************************************************************************)
Num(a) == <<a, 0>>

Add(p, q) == <<p[1] + q[1], p[2] + q[2]>>

\* a + b*sqrt(2) > 0, decided on integers.
Positive(a, b) ==
    IF b = 0 THEN a > 0
    ELSE IF a >= 0 /\ b > 0 THEN TRUE
    ELSE IF a <= 0 /\ b < 0 THEN FALSE
    ELSE IF a > 0 THEN a * a > 2 * b * b      \* b < 0
    ELSE 2 * b * b > a * a                    \* a < 0, b > 0

Less(p, q) == Positive(q[1] - p[1], q[2] - p[2])

LessEq(p, q) == ~Less(q, p)

MinNum(p, q) == IF Less(q, p) THEN q ELSE p

Sentinel == Num(-1)

Zero == Num(0)

(***************************************************************************)
(* calculateDistanceFieldFast                                              *)
(***************************************************************************)
\* The (dx, dy) pairs in the order of the nested loops dy = -1..1, dx = -1..1,
\* the centre skipped.
Offsets ==
    << <<-1, -1>>, <<0, -1>>, <<1, -1>>,
       <<-1, 0>>,             <<1, 0>>,
       <<-1, 1>>,  <<0, 1>>,  <<1, 1>> >>

InBounds(w, h, x, y) == x >= 0 /\ x < w /\ y >= 0 /\ y < h

\* Mutant: every step, diagonal or not, costs 1.
StepCost_Chessboard(dx, dy) == <<1, 0>>

\* Math.sqrt(dx*dx + dy*dy) for dx, dy in -1..1, not both 0.
StepCost(dx, dy) == IF dx # 0 /\ dy # 0 THEN <<0, 1>> ELSE <<1, 0>>

\* Mutant: only the 4 orthogonal neighbours are looked at.
IsEdge_FourNeighbours(c, w, h, x, y) ==
    \E k \in {2, 4, 5, 7} :
        LET nx == x + Offsets[k][1]
            ny == y + Offsets[k][2]
        IN  IF InBounds(w, h, nx, ny) THEN ~c[ny * w + nx] ELSE TRUE

\* The seeding pass's isEdge flag for the inside pixel (x, y).
IsEdge(c, w, h, x, y) ==
    \E k \in 1..8 :
        LET nx == x + Offsets[k][1]
            ny == y + Offsets[k][2]
        IN  IF InBounds(w, h, nx, ny) THEN ~c[ny * w + nx] ELSE TRUE

\* Mutant: the else branch that presets maxDistance is missing.
SeedDistances_NoPreset(c, w, h, md) ==
    [i \in 0..(w * h - 1) |->
        IF c[i] /\ IsEdge(c, w, h, i % w, i \div w) THEN Zero ELSE Sentinel]

SeedDistances(c, w, h, md) ==
    [i \in 0..(w * h - 1) |->
        IF c[i]
        THEN IF IsEdge(c, w, h, i % w, i \div w) THEN Zero ELSE md
        ELSE Sentinel]

RECURSIVE SeedQueue(_, _, _, _)
SeedQueue(c, w, h, i) ==
    IF i >= w * h THEN <<>>
    ELSE IF c[i] /\ IsEdge(c, w, h, i % w, i \div w)
         THEN <<[x |-> i % w, y |-> i \div w, dist |-> Zero]>> \o SeedQueue(c, w, h, i + 1)
         ELSE SeedQueue(c, w, h, i + 1)

\* Mutant: a neighbour is also taken when the new distance equals the stored one.
RelaxOne_NonStrict(c, w, h, md, st, e, k) ==
    LET dx == Offsets[k][1]
        dy == Offsets[k][2]
        nx == e.x + dx
        ny == e.y + dy
        nIndex == ny * w + nx
        newDist == Add(e.dist, StepCost(dx, dy))
    IN  IF /\ InBounds(w, h, nx, ny)
           /\ c[nIndex]
           /\ LessEq(newDist, st.distances[nIndex])
           /\ LessEq(newDist, md)
        THEN [distances |-> [st.distances EXCEPT ![nIndex] = newDist],
              queue |-> Append(st.queue, [x |-> nx, y |-> ny, dist |-> newDist])]
        ELSE st

\* One neighbour of the dequeued entry e: the body of the inner loops.
RelaxOne(c, w, h, md, st, e, k) ==
    LET dx == Offsets[k][1]
        dy == Offsets[k][2]
        nx == e.x + dx
        ny == e.y + dy
        nIndex == ny * w + nx
        newDist == Add(e.dist, StepCost(dx, dy))
    IN  IF /\ InBounds(w, h, nx, ny)
           /\ c[nIndex]
           /\ Less(newDist, st.distances[nIndex])
           /\ LessEq(newDist, md)
        THEN [distances |-> [st.distances EXCEPT ![nIndex] = newDist],
              queue |-> Append(st.queue, [x |-> nx, y |-> ny, dist |-> newDist])]
        ELSE st

RECURSIVE RelaxAll(_, _, _, _, _, _, _)
RelaxAll(c, w, h, md, st, e, k) ==
    IF k > 8 THEN st
    ELSE CHOOSE r \in {RelaxAll(c, w, h, md, s, e, k + 1) :
                           s \in {RelaxOne(c, w, h, md, st, e, k)}} : TRUE

\* One iteration of the while loop for the dequeued entry e.
ProcessEntry(c, w, h, md, st, e) ==
    IF LessEq(md, e.dist) THEN st            \* if (dist >= maxDistance) continue
    ELSE RelaxAll(c, w, h, md, st, e, 1)

RECURSIVE RunLoop(_, _, _, _, _, _)
RunLoop(c, w, h, md, st, qi) ==
    IF qi >= Len(st.queue) THEN st.distances
    ELSE RunLoop(c, w, h, md, ProcessEntry(c, w, h, md, st, st.queue[qi + 1]), qi + 1)

\* The function as a whole, for its callers.
CalculateDistanceFieldFast(c, w, h, md) ==
    RunLoop(c, w, h, md,
            [distances |-> SeedDistances(c, w, h, md), queue |-> SeedQueue(c, w, h, 0)], 0)

(***************************************************************************)
(* Exact comparison of integers against multiples of sqrt(2), on numbers   *)
(* whose squares exceed 32 bits: squares are kept as four base-10000       *)
(* digits, most significant first.                                         *)
(***************************************************************************)
BigSquare(n) ==
    LET h == n \div 10000
        l == n % 10000
        t0 == l * l
        t1 == 2 * h * l + (t0 \div 10000)
        t2 == h * h + (t1 \div 10000)
    IN  <<t2 \div 10000, t2 % 10000, t1 % 10000, t0 % 10000>>

BigDouble(x) ==
    LET c0 == 2 * x[4]
        c1 == 2 * x[3] + (c0 \div 10000)
        c2 == 2 * x[2] + (c1 \div 10000)
        c3 == 2 * x[1] + (c2 \div 10000)
    IN  <<c3, c2 % 10000, c1 % 10000, c0 % 10000>>

BigLess(x, y) ==
    \E k \in 1..4 : x[k] < y[k] /\ \A j \in 1..(k - 1) : x[j] = y[j]

Abs(n) == IF n < 0 THEN -n ELSE n

\* x <= b*sqrt(2) for integers x, b.
LeSqrt2(x, b) ==
    IF b = 0 THEN x <= 0
    ELSE IF x <= 0 /\ b > 0 THEN TRUE
    ELSE IF x > 0 /\ b < 0 THEN FALSE
    ELSE IF x > 0 THEN ~BigLess(BigDouble(BigSquare(b)), BigSquare(x))      \* x^2 <= 2b^2
    ELSE ~BigLess(BigSquare(Abs(x)), BigDouble(BigSquare(Abs(b))))          \* 2b^2 <= x^2

\* Math.floor(Math.max(0, Math.min(255, (A + B*sqrt(2)) / R))) for R > 0.
FloorClamp255(A, B, R) ==
    IF ~LeSqrt2(-A, B) THEN 0                     \* the value is negative
    ELSE CHOOSE n \in 0..255 :
            /\ LeSqrt2(n * R - A, B)
            /\ n < 255 => ~LeSqrt2((n + 1) * R - A, B)

(***************************************************************************)
(* calculateRoundedDepth.  distance is a lattice number, edgeWidth an      *)
(* integer.  Callers pass distance >= 0.                                   *)
(***************************************************************************)
\* Math.floor(Math.sqrt(1 - (1-t)*(1-t)) * 255) for t = d/W in [0, 1):
\* the largest n with n^2 * W^2 <= 255^2 * (2Wd - d^2).
RoundedFloor(d, W) ==
    LET a == d[1]
        b == d[2]
        P == 2 * W * a - a * a - 2 * b * b        \* 2Wd - d^2 = P + Q*sqrt(2)
        Q == 2 * W * b - 2 * a * b
    IN  CHOOSE n \in 0..255 :
            /\ LeSqrt2(n * n * W * W - 65025 * P, 65025 * Q)
            /\ n < 255 => ~LeSqrt2((n + 1) * (n + 1) * W * W - 65025 * P, 65025 * Q)

\* Mutant: the convex/concave formulas swapped, sqrt(1 - t*t).
CalculateRoundedDepth_Inverted(distance, edgeWidth) ==
    IF LessEq(Num(edgeWidth), distance) THEN 255
    ELSE RoundedFloor(<<edgeWidth - distance[1], -distance[2]>>, edgeWidth)

CalculateRoundedDepth(distance, edgeWidth) ==
    IF LessEq(Num(edgeWidth), distance) THEN 255      \* distance >= edgeWidth
    ELSE LET depth == RoundedFloor(distance, edgeWidth)
         IN  IF depth < 0 THEN 0 ELSE IF depth > 255 THEN 255 ELSE depth

(***************************************************************************)
(* calculateChamferedDepth.  The angle is one of ChamferAngles; its        *)
(* tangent is the rational TanOf(angle) = <<numerator, denominator>>.      *)
(* 27 and 63 stand for atan(1/2) and atan(2).  Tangents and quotients are  *)
(* exact; the rounding of Math.tan and of the divisions is not modelled.   *)
(***************************************************************************)
TanOf(angle) ==
    CASE angle = 27 -> <<1, 2>>
      [] angle = 45 -> <<1, 1>>
      [] angle = 63 -> <<2, 1>>
      [] angle = 135 -> <<-1, 1>>

\* Mutant: the two normalisations are attached to the wrong branches.
CalculateChamferedDepth_BranchesSwapped(distance, edgeWidth, angle) ==
    IF LessEq(Num(edgeWidth), distance) THEN 255
    ELSE LET tn == TanOf(angle)[1]
             td == TanOf(angle)[2]
         IN  IF edgeWidth * tn > edgeWidth * td
             THEN FloorClamp255(255 * distance[1] * tn, 255 * distance[2] * tn, td * edgeWidth)
             ELSE FloorClamp255(255 * distance[1], 255 * distance[2], edgeWidth)

CalculateChamferedDepth(distance, edgeWidth, angle) ==
    IF LessEq(Num(edgeWidth), distance) THEN 255      \* distance >= edgeWidth
    ELSE LET tn == TanOf(angle)[1]
             td == TanOf(angle)[2]
             \* maxHeight = edgeWidth*tn/td, currentHeight = distance*tn/td
         IN  IF edgeWidth * tn > edgeWidth * td        \* maxHeight > edgeWidth
             THEN \* (currentHeight / maxHeight) * 255
                  FloorClamp255(255 * distance[1] * tn * td, 255 * distance[2] * tn * td,
                                td * edgeWidth * tn)
             ELSE \* (currentHeight / edgeWidth) * 255
                  FloorClamp255(255 * distance[1] * tn, 255 * distance[2] * tn,
                                td * edgeWidth)

(***************************************************************************)
(* The distance field as a state machine: seeding, then one step per       *)
(* dequeued entry.                                                         *)
(***************************************************************************)
Pixels(w, h) == 0..(w * h - 1)

\* Masks the specification starts from: the full raster with up to two
\* pixels cut out, and every axis-aligned rectangle of inside pixels.
HoleMasks(w, h) ==
    {[i \in Pixels(w, h) |-> i # p /\ i # q] : p \in Pixels(w, h) \cup {-1}, q \in Pixels(w, h)}

RectMasks(w, h) ==
    {[i \in Pixels(w, h) |-> /\ i % w >= x0 /\ i % w <= x1
                              /\ i \div w >= y0 /\ i \div w <= y1] :
        x0 \in 0..(w - 1), x1 \in 0..(w - 1), y0 \in 0..(h - 1), y1 \in 0..(h - 1)}

Masks(w, h) == HoleMasks(w, h) \cup RectMasks(w, h) \cup {[i \in Pixels(w, h) |-> TRUE]}

\* The values the variables of the other components keep while one component
\* is exercised.
IdleDF ==
    /\ width = 0 /\ height = 0 /\ contour = <<>> /\ maxDistance = Zero
    /\ distances = <<>> /\ queue = <<>> /\ queueIndex = 0 /\ pc = "idle"

IdleFn == call = [fn |-> "none"] /\ ret = 0 /\ fpc = "idle"

IdleMesh == props = <<>> /\ imageData = <<>> /\ geometry = <<>> /\ mpc = "idle"

IdleApp == app = <<>> /\ timers = {} /\ now = 0 /\ hist = <<>>

IdleSTL == exportOptions = <<>> /\ stlContent = <<>> /\ xpc = "idle"

IdleRun == earlier = <<>> /\ IdleApp /\ IdleSTL

IdleEdges ==
    /\ source = <<>> /\ options = <<>> /\ toggles = <<>> /\ processed = <<>>
    /\ output = <<>> /\ distanceField = <<>> /\ ppc = "idle"

InitDF ==
    /\ IdleRun
    /\ IdleFn
    /\ IdleEdges
    /\ IdleMesh
    /\ width = RasterN
    /\ height = RasterN
    /\ contour \in Masks(RasterN, RasterN)
    /\ maxDistance \in {Num(m) : m \in 1..MaxEdgeWidth}
    /\ distances = [i \in Pixels(RasterN, RasterN) |-> Sentinel]
    /\ queue = <<>>
    /\ queueIndex = 0
    /\ pc = "seed"

Seed ==
    /\ pc = "seed"
    /\ distances' = SeedDistances(contour, width, height, maxDistance)
    /\ queue' = SeedQueue(contour, width, height, 0)
    /\ pc' = "loop"
    /\ UNCHANGED <<width, height, contour, maxDistance, queueIndex, fnVars, edgeVars, meshVars, runVars>>

Propagate ==
    /\ pc = "loop"
    /\ queueIndex < Len(queue)
    /\ LET st == ProcessEntry(contour, width, height, maxDistance,
                              [distances |-> distances, queue |-> queue],
                              queue[queueIndex + 1])
       IN  /\ distances' = st.distances
           /\ queue' = st.queue
    /\ queueIndex' = queueIndex + 1
    /\ UNCHANGED <<width, height, contour, maxDistance, pc, fnVars, edgeVars, meshVars, runVars>>

Return ==
    /\ pc = "loop"
    /\ queueIndex >= Len(queue)
    /\ pc' = "done"
    /\ UNCHANGED <<width, height, contour, maxDistance, distances, queue, queueIndex, fnVars, edgeVars, meshVars, runVars>>

NextDF == Seed \/ Propagate \/ Return

SpecDF == InitDF /\ [][NextDF]_vars

\* The masks of the termination runs: the inside is a block that reaches the
\* bottom right corner of the raster; maxDistance 0 is included, with which
\* the seeds themselves are at maxDistance.
LiveMasks(n) ==
    {[i \in Pixels(n, n) |-> (i % n) >= x0 /\ (i \div n) >= y0] : x0 \in 0..(n - 1), y0 \in 0..(n - 1)}

InitDFLive ==
    /\ IdleRun
    /\ IdleFn
    /\ IdleEdges
    /\ IdleMesh
    /\ width = RasterN
    /\ height = RasterN
    /\ contour \in LiveMasks(RasterN)
    /\ maxDistance \in {Num(m) : m \in 0..MaxEdgeWidth}
    /\ distances = [i \in Pixels(RasterN, RasterN) |-> Sentinel]
    /\ queue = <<>>
    /\ queueIndex = 0
    /\ pc = "seed"

\* The while loop is sequential code that runs until its condition fails.
SpecDFLive == InitDFLive /\ [][NextDF]_vars /\ WF_vars(NextDF)

(***************************************************************************)
(* The edge-profile functions called on bounded inputs.                    *)
(***************************************************************************)
ProfileDistances == {<<a, b>> : a \in 0..MaxStraight, b \in 0..MaxDiagonal}

ChamferAngles == {27, 45, 63, 135}

InitProfile ==
    /\ IdleRun
    /\ IdleDF
    /\ IdleEdges
    /\ IdleMesh
    /\ call \in
         {[fn |-> "rounded", distance |-> d, edgeWidth |-> W] :
             d \in ProfileDistances, W \in 1..MaxProfileWidth}
         \cup
         {[fn |-> "chamfered", distance |-> d, edgeWidth |-> W, angle |-> g] :
             d \in ProfileDistances, W \in 1..MaxProfileWidth, g \in ChamferAngles}
    /\ ret = 0
    /\ fpc = "call"

CallRounded ==
    /\ fpc = "call"
    /\ call.fn = "rounded"
    /\ ret' = CalculateRoundedDepth(call.distance, call.edgeWidth)
    /\ fpc' = "returned"
    /\ UNCHANGED <<call, dfVars, edgeVars, meshVars, runVars>>

CallChamfered ==
    /\ fpc = "call"
    /\ call.fn = "chamfered"
    /\ ret' = CalculateChamferedDepth(call.distance, call.edgeWidth, call.angle)
    /\ fpc' = "returned"
    /\ UNCHANGED <<call, dfVars, edgeVars, meshVars, runVars>>

NextProfile == CallRounded \/ CallChamfered

SpecProfile == InitProfile /\ [][NextProfile]_vars

(***************************************************************************)
(* processImageWithEdges                                                   *)
(***************************************************************************)
\* Mutant: every pixel with an alpha value counts as inside.
ExtractSmartContour_AnyAlpha(img) ==
    [i \in Pixels(img.width, img.height) |-> img.data[i][4] >= 0]

ExtractSmartContour(img) ==
    [i \in Pixels(img.width, img.height) |-> img.data[i][4] > 32]

\* extractContour: gray = 0.299 r + 0.587 g + 0.114 b, in thousandths.
ExtractContour(img, threshold) ==
    [width |-> img.width, height |-> img.height,
     data |-> [i \in Pixels(img.width, img.height) |->
                  LET gray == 299 * img.data[i][1] + 587 * img.data[i][2]
                                  + 114 * img.data[i][3]
                      value == IF gray > 1000 * threshold THEN 255 ELSE 0
                  IN  <<value, value, value, 255>>]]

\* options.chamferAngle || 45
AngleOrDefault(angle) == IF angle = 0 THEN 45 ELSE angle

VerticalPixel(alpha) ==
    IF alpha > 32 THEN <<255, 255, 255, alpha>> ELSE <<0, 0, 0, 0>>

ProfiledPixel(alpha, distance, opts) ==
    IF alpha > 32 /\ LessEq(Zero, distance)
    THEN LET depth ==
                 CASE opts.edgeType = "rounded" ->
                        CalculateRoundedDepth(distance, opts.edgeWidth)
                   [] opts.edgeType = "chamfered" ->
                        CalculateChamferedDepth(distance, opts.edgeWidth,
                                                AngleOrDefault(opts.chamferAngle))
                   [] OTHER -> 0
         IN  <<depth, depth, depth, alpha>>
    ELSE IF alpha <= 32 THEN <<0, 0, 0, 0>>
    ELSE <<0, 0, 0, alpha>>

\* Mutant: the vertical branch is missing, every style takes the
\* distance-field branch.
ProcessImageWithEdges_NoVerticalBranch(img, opts) ==
    LET field ==
            CalculateDistanceFieldFast(ExtractSmartContour(img), img.width, img.height,
                                       Num(opts.edgeWidth))
    IN  [result |-> [width |-> img.width, height |-> img.height,
                     data |-> [i \in Pixels(img.width, img.height) |->
                                  ProfiledPixel(img.data[i][4], field[i], opts)]],
         distanceField |-> field]

\* The returned raster, and the distanceField local (<<>> when the branch
\* that assigns it is not taken).
ProcessImageWithEdges(img, opts) ==
    IF opts.edgeType = "vertical"
    THEN [result |-> [width |-> img.width, height |-> img.height,
                      data |-> [i \in Pixels(img.width, img.height) |->
                                   VerticalPixel(img.data[i][4])]],
          distanceField |-> <<>>]
    ELSE LET field ==
                 CalculateDistanceFieldFast(ExtractSmartContour(img), img.width, img.height,
                                            Num(opts.edgeWidth))
         IN  [result |-> [width |-> img.width, height |-> img.height,
                          data |-> [i \in Pixels(img.width, img.height) |->
                                       ProfiledPixel(img.data[i][4], field[i], opts)]],
              distanceField |-> field]

(***************************************************************************)
(* intelligentEdgeSmoothing.  smoothingStrength is given in hundredths:    *)
(* s stands for the strength s/100.                                        *)
(***************************************************************************)
GetPixelValue(img, x, y) ==
    IF x < 0 \/ x >= img.width \/ y < 0 \/ y >= img.height THEN 0
    ELSE img.data[y * img.width + x][1]

\* Mutant: every pixel is taken for an edge pixel.
SmoothIsEdgePixel_Everywhere(img, x, y) == TRUE

SmoothIsEdgePixel(img, x, y) ==
    \E k \in 1..8 :
        Abs(GetPixelValue(img, x, y)
            - GetPixelValue(img, x + Offsets[k][1], y + Offsets[k][2])) > 8

\* Mutant: the tier boundaries belong to the larger kernel.
KernelSize_StrictBounds(s) == IF s < 30 THEN 1 ELSE IF s < 70 THEN 2 ELSE 3

\* smoothingStrength <= 0.3 -> 1, <= 0.7 -> 2, else 3
KernelSize(s) == IF s <= 30 THEN 1 ELSE IF s <= 70 THEN 2 ELSE 3

Weights(kernelSize) ==
    CASE kernelSize = 1 ->
           << <<1, 2, 1>>,
              <<2, 4, 2>>,
              <<1, 2, 1>> >>
      [] kernelSize = 2 ->
           << <<1, 2, 3, 2, 1>>,
              <<2, 4, 6, 4, 2>>,
              <<3, 6, 9, 6, 3>>,
              <<2, 4, 6, 4, 2>>,
              <<1, 2, 3, 2, 1>> >>
      [] kernelSize = 3 ->
           << <<1, 2, 3, 4, 3, 2, 1>>,
              <<2, 4, 6, 8, 6, 4, 2>>,
              <<3, 6, 9, 12, 9, 6, 3>>,
              <<4, 8, 12, 16, 12, 8, 4>>,
              <<3, 6, 9, 12, 9, 6, 3>>,
              <<2, 4, 6, 8, 6, 4, 2>>,
              <<1, 2, 3, 4, 3, 2, 1>> >>

\* Mutant: the similarity threshold is twice as wide.
Similar_Wide(value, centerValue, s) == 100 * Abs(value - centerValue) < 2 * (3000 + 70 * s)

\* Math.abs(value - centerValue) < 30 + smoothingStrength * 70
Similar(value, centerValue, s) == 100 * Abs(value - centerValue) < 3000 + 70 * s

\* Mutant: every sample of the kernel is averaged, similar or not.
SampleWeight_NoSimilarity(weight, value, centerValue, s) == weight

\* The weight with which a sample enters weightedSum and totalWeight.
SampleWeight(weight, value, centerValue, s) ==
    IF Similar(value, centerValue, s) THEN weight ELSE 0

\* f itself, with its values computed once (TLC otherwise evaluates the body
\* of a function constructor again at every application).
Tabulate(f) == f @@ <<>>

RECURSIVE SumTo(_, _)
\* f[1] + ... + f[n]
SumTo(f, n) == IF n = 0 THEN 0 ELSE f[n] + SumTo(f, n - 1)

\* getSmoothValue as the pair <<weightedSum, totalWeight>>; the kernel cells
\* are indexed as weights[dy + kernelSize][dx + kernelSize] is.
GetSmoothValue(img, x, y, s) ==
    LET kernelSize == KernelSize(s)
        weights == Weights(kernelSize)
        side == 2 * kernelSize + 1
        centerValue == GetPixelValue(img, x, y)
        row == Tabulate([r \in 1..side |->
                  LET value == Tabulate([c \in 1..side |->
                                   GetPixelValue(img, x + c - 1 - kernelSize,
                                                 y + r - 1 - kernelSize)])
                      weight == Tabulate([c \in 1..side |->
                                    SampleWeight(weights[r][c], value[c], centerValue, s)])
                      product == Tabulate([c \in 1..side |-> value[c] * weight[c]])
                  IN  <<SumTo(product, side), SumTo(weight, side)>>])
        weightedSum == Tabulate([r \in 1..side |-> row[r][1]])
        totalWeight == Tabulate([r \in 1..side |-> row[r][2]])
    IN  <<SumTo(weightedSum, side), SumTo(totalWeight, side)>>

\* Math.ceil(smoothingStrength * 4)
IterationCount(s) == (4 * s + 99) \div 100

\* m * x for a four-digit base-10000 number x and a small integer m >= 0.
BigTimes(x, m) ==
    LET c0 == m * x[4]
        c1 == m * x[3] + (c0 \div 10000)
        c2 == m * x[2] + (c1 \div 10000)
        c3 == m * x[1] + (c2 \div 10000)
    IN  <<c3, c2 % 10000, c1 % 10000, c0 % 10000>>

\* p <= q * sqrt(s) for integers p, q and s >= 0.
LeSqrtOf(p, q, s) ==
    IF q = 0 \/ s = 0 THEN p <= 0
    ELSE IF q > 0 THEN (p <= 0 \/ ~BigLess(BigTimes(BigSquare(q), s), BigSquare(p)))
    ELSE (p <= 0 /\ ~BigLess(BigSquare(-p), BigTimes(BigSquare(-q), s)))

RECURSIVE RoundSearch(_, _, _, _, _, _)
\* The largest n in lo..hi with n - 1/2 <= originalValue + sqrt(s)/10 * d/tw,
\* that is with 10*tw*(2n - 2*originalValue - 1) <= 2*d*sqrt(s); lo has it.
RoundSearch(originalValue, d, tw, s, lo, hi) ==
    IF lo = hi THEN lo
    ELSE LET mid == (lo + hi + 1) \div 2
         IN  IF LeSqrtOf(10 * tw * (2 * mid - 2 * originalValue - 1), 2 * d, s)
             THEN RoundSearch(originalValue, d, tw, s, mid, hi)
             ELSE RoundSearch(originalValue, d, tw, s, lo, mid - 1)

\* The byte stored for Math.round(originalValue * (1 - e) + smoothValue * e)
\* with e = Math.pow(smoothingStrength, 0.5) = sqrt(s)/10 and smoothValue =
\* weightedSum / totalWeight (centerValue when totalWeight is 0): the value
\* is originalValue + e * (smoothValue - originalValue), rounded and clamped
\* to 0..255 by the Uint8ClampedArray.
Blend(originalValue, sv, centerValue, s) ==
    LET ws == IF sv[2] > 0 THEN sv[1] ELSE centerValue
        tw == IF sv[2] > 0 THEN sv[2] ELSE 1
    IN  RoundSearch(originalValue, ws - originalValue * tw, tw, s, 0, 255)

\* Mutant: the kernel value is computed from the raster of the previous pass.
SmoothPass_FromPrevious(img, edge, smooth, tempData, s) ==
    Tabulate([i \in Pixels(img.width, img.height) |->
        IF edge[i]
        THEN LET v == Blend(tempData[i][1],
                            GetSmoothValue([img EXCEPT !.data = tempData],
                                           i % img.width, i \div img.width, s),
                            tempData[i][1], s)
             IN  <<v, v, v, tempData[i][4]>>
        ELSE tempData[i]])

\* One pass of the iteration loop.  tempData is the raster before the pass;
\* edge[i] and smooth[i] are isEdgePixel and getSmoothValue of pixel i, which
\* read the input raster only and so are the same in every pass.
SmoothPass(img, edge, smooth, tempData, s) ==
    Tabulate([i \in Pixels(img.width, img.height) |->
        IF edge[i]
        THEN LET v == Blend(tempData[i][1], smooth[i], img.data[i][1], s)
             IN  <<v, v, v, tempData[i][4]>>
        ELSE tempData[i]])

RECURSIVE SmoothLoop(_, _, _, _, _, _)
SmoothLoop(img, edge, smooth, data, s, iteration) ==
    IF iteration >= IterationCount(s) THEN data
    ELSE SmoothLoop(img, edge, smooth, SmoothPass(img, edge, smooth, data, s), s,
                    iteration + 1)

IntelligentEdgeSmoothing(img, s) ==
    LET edge == Tabulate([i \in Pixels(img.width, img.height) |->
                    SmoothIsEdgePixel(img, i % img.width, i \div img.width)])
        smooth == Tabulate([i \in Pixels(img.width, img.height) |->
                      IF edge[i] THEN GetSmoothValue(img, i % img.width, i \div img.width, s)
                      ELSE <<0, 0>>])
    IN  [width |-> img.width, height |-> img.height,
         data |-> SmoothLoop(img, edge, smooth, img.data, s, 0)]

(***************************************************************************)
(* processImageWithEdgesOptimized as a state machine: the edge stage, then *)
(* the branch the toggles select.  The runs started here have DPI          *)
(* optimization switched off.                                              *)
(***************************************************************************)
\* Source rasters: a mask with at most one hole or a rectangle of inside
\* pixels at the origin; inside pixels have alpha hi > 32, the others alpha lo <= 32.
EdgeMasks(n) ==
    {[i \in Pixels(n, n) |-> i # p] : p \in Pixels(n, n) \cup {-1}}
    \cup {[i \in Pixels(n, n) |-> (i % n) < c /\ (i \div n) < r] : c \in 1..n, r \in 1..n}

SourceRasters(n) ==
    {[width |-> n, height |-> n,
      data |-> [i \in Pixels(n, n) |-> <<10, 20, 30, IF m[i] THEN al[2] ELSE al[1]>>]] :
        m \in EdgeMasks(n), al \in {<<0, 255>>, <<32, 33>>}}

\* chamferAngle 0 stands for an absent or zero angle; 135 is outside (0, 90).
OptionSets ==
    {[edgeType |-> t[1], edgeWidth |-> W, chamferAngle |-> t[2]] :
        t \in {<<"vertical", 0>>, <<"vertical", 45>>, <<"rounded", 45>>,
                <<"chamfered", 0>>, <<"chamfered", 27>>, <<"chamfered", 63>>,
                <<"chamfered", 135>>},
        W \in (-1)..MaxEdgeWidth}

\* Strengths in hundredths: 0.1 (3x3 kernel, 1 pass), 0.3 (3x3, 2 passes),
\* 0.7 (5x5, 3 passes) and 1 (7x7, 4 passes).
Strengths == {10, 30, 70, 100}

ToggleSets ==
    {[enableDPIOptimization |-> FALSE, enableEdgeSmoothing |-> FALSE, smoothingStrength |-> 60]}
    \cup {[enableDPIOptimization |-> FALSE, enableEdgeSmoothing |-> TRUE,
           smoothingStrength |-> s] : s \in Strengths}

InitEdges ==
    /\ IdleRun
    /\ IdleDF
    /\ IdleFn
    /\ IdleMesh
    /\ source \in SourceRasters(RasterE)
    /\ options \in OptionSets
    /\ toggles \in ToggleSets
    /\ processed = <<>>
    /\ output = <<>>
    /\ distanceField = <<>>
    /\ ppc = "start"

\* const processedImageData = processImageWithEdges(sourceImageData, options)
RunEdges ==
    /\ ppc = "start"
    /\ LET r == ProcessImageWithEdges(source, options)
       IN  /\ processed' = r.result
           /\ distanceField' = r.distanceField
    /\ ppc' = "edges"
    /\ UNCHANGED <<source, options, toggles, output, dfVars, fnVars, meshVars, runVars>>

\* Mutant: the smoothing writes into the raster it was given.
SmoothOnly_InPlace ==
    /\ ppc = "edges"
    /\ ~toggles.enableDPIOptimization
    /\ toggles.enableEdgeSmoothing
    /\ output' = IntelligentEdgeSmoothing(processed, toggles.smoothingStrength)
    /\ processed' = output'
    /\ ppc' = "returned"
    /\ UNCHANGED <<source, options, toggles, distanceField, dfVars, fnVars, meshVars, runVars>>

\* if (enableEdgeSmoothing) return intelligentEdgeSmoothing(...)
SmoothOnly ==
    /\ ppc = "edges"
    /\ ~toggles.enableDPIOptimization
    /\ toggles.enableEdgeSmoothing
    /\ output' = IntelligentEdgeSmoothing(processed, toggles.smoothingStrength)
    /\ ppc' = "returned"
    /\ UNCHANGED <<source, options, toggles, processed, distanceField, dfVars, fnVars, meshVars, runVars>>

\* return processedImageData
ReturnProcessed ==
    /\ ppc = "edges"
    /\ ~toggles.enableDPIOptimization
    /\ ~toggles.enableEdgeSmoothing
    /\ output' = processed
    /\ ppc' = "returned"
    /\ UNCHANGED <<source, options, toggles, processed, distanceField, dfVars, fnVars, meshVars, runVars>>

NextEdges == RunEdges \/ SmoothOnly \/ ReturnProcessed

SpecEdges == InitEdges /\ [][NextEdges]_vars

(***************************************************************************)
(* intelligentEdgeSmoothing called on its own: processed is the raster     *)
(* passed in, toggles.smoothingStrength the strength, output the result.   *)
(***************************************************************************)
SmoothOptionSets ==
    {[edgeType |-> "vertical", edgeWidth |-> 1, chamferAngle |-> 45],
     [edgeType |-> "rounded", edgeWidth |-> MaxEdgeWidth, chamferAngle |-> 45],
     [edgeType |-> "chamfered", edgeWidth |-> MaxEdgeWidth, chamferAngle |-> 27],
     [edgeType |-> "chamfered", edgeWidth |-> 2, chamferAngle |-> 63]}

\* A depth raster of three levels: column 0 at 0, column 1 at 40, the other
\* columns at 200.
Terrace(n) ==
    [width |-> n, height |-> n,
     data |-> [i \in Pixels(n, n) |->
                 LET v == IF i % n = 0 THEN 0 ELSE IF i % n = 1 THEN 40 ELSE 200
                 IN  <<v, v, v, 255>>]]

\* Depth rasters of the edge stage, the source rasters themselves, whose
\* R, G and B bytes differ, and the terrace.
SmoothInputs ==
    {ProcessImageWithEdges(src, o).result :
        src \in SourceRasters(RasterE), o \in SmoothOptionSets}
    \cup SourceRasters(RasterE) \cup {Terrace(RasterE)}

\* Strengths in hundredths, with values outside (0, 1]: -0.1, 0 and 1.44.
SmoothStrengths == {-10, 0, 10, 25, 30, 31, 60, 70, 71, 100, 144}

InitSmooth ==
    /\ IdleRun
    /\ IdleDF
    /\ IdleFn
    /\ IdleMesh
    /\ source = <<>>
    /\ options = <<>>
    /\ toggles \in {[enableDPIOptimization |-> FALSE, enableEdgeSmoothing |-> TRUE,
                     smoothingStrength |-> s] : s \in SmoothStrengths}
    /\ processed \in SmoothInputs
    /\ output = <<>>
    /\ distanceField = <<>>
    /\ ppc = "smoothing"

\* intelligentEdgeSmoothing(imageData, smoothingStrength)
CallSmoothing ==
    /\ ppc = "smoothing"
    /\ output' = IntelligentEdgeSmoothing(processed, toggles.smoothingStrength)
    /\ ppc' = "returned"
    /\ UNCHANGED <<source, options, toggles, processed, distanceField, dfVars, fnVars, meshVars, runVars>>

NextSmooth == CallSmoothing

SpecSmooth == InitSmooth /\ [][NextSmooth]_vars

(***************************************************************************)
(* optimizeDepthMapDPI and edgePreservingUpscale.  A scale factor is the   *)
(* exact quotient <<numerator, denominator>>.                              *)
(***************************************************************************)
\* Math.min
MinInt(m, n) == IF m <= n THEN m ELSE n

\* Math.round of the quotient n / d, n >= 0, d > 0
RoundDiv(n, d) == (2 * n + d) \div (2 * d)

\* Mutant: the estimate of an earlier call is kept and reused.
EstimateDepthMapDPI_Cached(img) == IF earlier = <<>> THEN 72 ELSE 150

EstimateDepthMapDPI(img) ==
    LET totalPixels == img.width * img.height
    IN  IF totalPixels < 100000 THEN 72
        ELSE IF totalPixels < 400000 THEN 150
        ELSE IF totalPixels < 1000000 THEN 200
        ELSE 300

\* getPixel at an already floored position: all four channels
GetPixel(img, x, y) ==
    LET clampedX == IF x < 0 THEN 0 ELSE MinInt(img.width - 1, x)
        clampedY == IF y < 0 THEN 0 ELSE MinInt(img.height - 1, y)
    IN  img.data[clampedY * img.width + clampedX]

UpscaleIsEdgePixel(img, x, y) ==
    LET centerValue == GetPixel(img, x, y)[1]
    IN  \E dy \in -1..1, dx \in -1..1 :
            /\ ~(dx = 0 /\ dy = 0)
            /\ Abs(centerValue - GetPixel(img, x + dx, y + dy)[1]) > 10

\* Mutant: the second interpolation row is taken one row too far.
Bilinear_Extrapolating(v11, v12, v21, v22, rx, ry, num) ==
    RoundDiv((v11 * (num - rx) + v21 * rx) * (num - ry)
                 + (v12 * (num - rx) + v22 * rx) * ry, num * num) + ry

\* Math.round(v1 * (1 - fy) + v2 * fy) with fx = rx / num, fy = ry / num
Bilinear(v11, v12, v21, v22, rx, ry, num) ==
    RoundDiv((v11 * (num - rx) + v21 * rx) * (num - ry)
                 + (v12 * (num - rx) + v22 * rx) * ry, num * num)

UpscalePixel(img, scaleFactor, x, y) ==
    LET num == scaleFactor[1]
        den == scaleFactor[2]
        x1 == (x * den) \div num
        y1 == (y * den) \div num
        rx == (x * den) % num
        ry == (y * den) % num
    IN  IF UpscaleIsEdgePixel(img, x1, y1)
        THEN GetPixel(img, RoundDiv(x * den, num), RoundDiv(y * den, num))
        ELSE LET x2 == MinInt(x1 + 1, img.width - 1)
                 y2 == MinInt(y1 + 1, img.height - 1)
                 v11 == GetPixel(img, x1, y1)
                 v12 == GetPixel(img, x1, y2)
                 v21 == GetPixel(img, x2, y1)
                 v22 == GetPixel(img, x2, y2)
             IN  <<Bilinear(v11[1], v12[1], v21[1], v22[1], rx, ry, num),
                   Bilinear(v11[2], v12[2], v21[2], v22[2], rx, ry, num),
                   Bilinear(v11[3], v12[3], v21[3], v22[3], rx, ry, num),
                   Bilinear(v11[4], v12[4], v21[4], v22[4], rx, ry, num)>>

EdgePreservingUpscale(img, scaleFactor) ==
    LET newWidth == RoundDiv(img.width * scaleFactor[1], scaleFactor[2])
        newHeight == RoundDiv(img.height * scaleFactor[1], scaleFactor[2])
    IN  [width |-> newWidth, height |-> newHeight,
         data |-> Tabulate([i \in Pixels(newWidth, newHeight) |->
                      UpscalePixel(img, scaleFactor, i % newWidth, i \div newWidth)])]

\* Mutant: the scale factor is inverted.
PerformDPIOptimization_Inverted(img, targetDPI, currentDPI) ==
    EdgePreservingUpscale(img, <<currentDPI, targetDPI>>)

PerformDPIOptimization(img, targetDPI, currentDPI) ==
    EdgePreservingUpscale(img, <<targetDPI, currentDPI>>)

\* originalDPI = 0 stands for undefined: originalDPI || estimateDepthMapDPI(imageData)
OptimizeDepthMapDPI(img, targetDPI, originalDPI, enableEdgeSmoothing, smoothingStrength) ==
    LET currentDPI == IF originalDPI = 0 THEN EstimateDepthMapDPI(img) ELSE originalDPI
    IN  IF enableEdgeSmoothing
        THEN LET smoothedImageData == IntelligentEdgeSmoothing(img, smoothingStrength)
             IN  IF currentDPI >= targetDPI THEN smoothedImageData
                 ELSE PerformDPIOptimization(smoothedImageData, targetDPI, currentDPI)
        ELSE IF currentDPI >= targetDPI THEN img
        ELSE PerformDPIOptimization(img, targetDPI, currentDPI)

(***************************************************************************)
(* edgePreservingUpscale called on its own: processed is the raster passed *)
(* in, toggles.scaleFactor the factor, output the result.                  *)
(***************************************************************************)
\* Rasters with gentle ramps (bilinear region), a step and a spike (edge
\* region), constant rasters, and smoothed depth rasters.
UpscaleShapes == {"ramp", "step", "spike", "constant", "clear"}

UpscaleRaster(n, shape) ==
    [width |-> n, height |-> n,
     data |-> [i \in Pixels(n, n) |->
                 CASE shape = "ramp" ->
                        <<40 + 4 * (i % n) + 3 * (i \div n), 7 * (i % n), 200 - 9 * (i \div n),
                          255 - 5 * (i % n)>>
                   [] shape = "step" ->
                        IF i % n = 0 THEN <<0, 0, 0, 255>> ELSE <<200 + i, 200, 200, 255>>
                   [] shape = "spike" ->
                        IF i = n + 1 THEN <<255, 255, 255, 255>>
                        ELSE <<100 + 2 * (i % n), 100, 100, 40 + i>>
                   [] shape = "constant" -> <<77, 78, 79, 200>>
                   [] shape = "clear" -> <<0, 0, 0, 0>>]]

UpscaleInputs ==
    {UpscaleRaster(RasterU, shape) : shape \in UpscaleShapes}
    \cup {IntelligentEdgeSmoothing(ProcessImageWithEdges(src, o).result, 100) :
            src \in SourceRasters(RasterU),
            o \in {[edgeType |-> "chamfered", edgeWidth |-> 2, chamferAngle |-> 27]}}

\* 2, 3/2 and 3, and the factors 150/72 and 300/72 of the application.
ScaleFactors == {<<2, 1>>, <<3, 2>>, <<3, 1>>, <<25, 12>>, <<25, 6>>}

InitUpscale ==
    /\ IdleRun
    /\ IdleDF
    /\ IdleFn
    /\ IdleMesh
    /\ source = <<>>
    /\ options = <<>>
    /\ toggles \in {[scaleFactor |-> k] : k \in ScaleFactors}
    /\ processed \in UpscaleInputs
    /\ output = <<>>
    /\ distanceField = <<>>
    /\ ppc = "upscaling"

\* edgePreservingUpscale(imageData, scaleFactor)
CallUpscale ==
    /\ ppc = "upscaling"
    /\ output' = EdgePreservingUpscale(processed, toggles.scaleFactor)
    /\ ppc' = "returned"
    /\ UNCHANGED <<source, options, toggles, processed, distanceField, dfVars, fnVars, meshVars, runVars>>

NextUpscale == CallUpscale

SpecUpscale == InitUpscale /\ [][NextUpscale]_vars

(***************************************************************************)
(* highQualityDownsample, and the round trip of a raster through           *)
(* edgePreservingUpscale and back to its own size.                         *)
(***************************************************************************)
\* Math.floor and Math.ceil of the quotient n / d, d > 0
FloorDiv(n, d) == n \div d

CeilDiv(n, d) == 0 - ((0 - n) \div d)

MaxInt(m, n) == IF m >= n THEN m ELSE n

\* getAreaAverage for target pixel (x, y): scaleX = width / targetWidth,
\* radius = max(scaleX, scaleY) / 2 = rn / (2 * rd), centre (x + 0.5) * scaleX.
AreaWindow(img, targetWidth, targetHeight, x, y) ==
    LET wider == img.width * targetHeight >= img.height * targetWidth
        rn == IF wider THEN img.width ELSE img.height
        rd == IF wider THEN targetWidth ELSE targetHeight
        cxn == (2 * x + 1) * img.width
        cyn == (2 * y + 1) * img.height
    IN  [startX |-> MaxInt(0, FloorDiv(cxn * rd - rn * targetWidth, 2 * targetWidth * rd)),
         endX |-> MinInt(img.width - 1,
                         CeilDiv(cxn * rd + rn * targetWidth, 2 * targetWidth * rd)),
         startY |-> MaxInt(0, FloorDiv(cyn * rd - rn * targetHeight, 2 * targetHeight * rd)),
         endY |-> MinInt(img.height - 1,
                         CeilDiv(cyn * rd + rn * targetHeight, 2 * targetHeight * rd))]

RECURSIVE SumOver(_, _, _, _)
\* sum of channel c over the pixel indices of the sequence cells, from k on
SumOver(img, cells, c, k) ==
    IF k > Len(cells) THEN 0
    ELSE img.data[cells[k]][c] + SumOver(img, cells, c, k + 1)

RECURSIVE CellsOf(_, _, _, _)
\* the pixel indices of the window, row by row from (x, y) on
CellsOf(img, win, x, y) ==
    IF y > win.endY THEN <<>>
    ELSE IF x > win.endX THEN CellsOf(img, win, win.startX, y + 1)
    ELSE <<y * img.width + x>> \o CellsOf(img, win, x + 1, y)

\* Math.round(count > 0 ? sum / count : 0)
AreaAverage(img, cells, c) ==
    IF Len(cells) > 0 THEN RoundDiv(SumOver(img, cells, c, 1), Len(cells)) ELSE 0

HighQualityDownsample(img, targetWidth, targetHeight) ==
    [width |-> targetWidth, height |-> targetHeight,
     data |-> Tabulate([i \in Pixels(targetWidth, targetHeight) |->
                 LET win == AreaWindow(img, targetWidth, targetHeight,
                                       i % targetWidth, i \div targetWidth)
                     cells == CellsOf(img, win, win.startX, win.startY)
                 IN  <<AreaAverage(img, cells, 1), AreaAverage(img, cells, 2),
                       AreaAverage(img, cells, 3), AreaAverage(img, cells, 4)>>])]

\* Integer factors k >= 1
RoundTripFactors == {<<1, 1>>, <<2, 1>>, <<3, 1>>}

InitRoundTrip ==
    /\ IdleRun
    /\ IdleDF
    /\ IdleFn
    /\ IdleMesh
    /\ source = <<>>
    /\ options = <<>>
    /\ toggles \in {[scaleFactor |-> k] : k \in RoundTripFactors}
    /\ processed \in UpscaleInputs
    /\ output = <<>>
    /\ distanceField = <<>>
    /\ ppc = "upscaling"

\* highQualityDownsample(upscaled, width, height) back to the original size
CallDownsample ==
    /\ ppc = "returned"
    /\ output' = HighQualityDownsample(output, processed.width, processed.height)
    /\ ppc' = "downsampled"
    /\ UNCHANGED <<source, options, toggles, processed, distanceField, dfVars, fnVars, meshVars, runVars>>

NextRoundTrip == CallUpscale \/ CallDownsample

SpecRoundTrip == InitRoundTrip /\ [][NextRoundTrip]_vars

(***************************************************************************)
(* PreciseDepthMapModel: the geometry memo.  Coordinates are exact         *)
(* rationals [n, d] with d > 0 in lowest terms; [n |-> 0, d |-> 0] is NaN. *)
(***************************************************************************)
RECURSIVE GCD(_, _)
GCD(m, n) == IF n = 0 THEN m ELSE GCD(n, m % n)

NaN == [n |-> 0, d |-> 0]

IsNaN(a) == a.d = 0

\* n / d for d > 0, in lowest terms.
RatNorm(n, d) == [n |-> n \div GCD(Abs(n), d), d |-> d \div GCD(Abs(n), d)]

RatOf(i) == [n |-> i, d |-> 1]

RatAdd(a, b) ==
    IF IsNaN(a) \/ IsNaN(b) THEN NaN ELSE RatNorm(a.n * b.d + b.n * a.d, a.d * b.d)

RatSub(a, b) ==
    IF IsNaN(a) \/ IsNaN(b) THEN NaN ELSE RatNorm(a.n * b.d - b.n * a.d, a.d * b.d)

RatMul(a, b) ==
    IF IsNaN(a) \/ IsNaN(b) THEN NaN ELSE RatNorm(a.n * b.n, a.d * b.d)

\* a / b; 0 / 0 is NaN.  A non-zero numerator over 0 does not occur: the
\* divisors are gridWidth - 1 and gridHeight - 1, which are 0 only for the
\* numerator 0, and physicalWidth, which is not 0.
RatDiv(a, b) ==
    CASE IsNaN(a) \/ IsNaN(b) -> NaN
      [] b.n = 0 /\ a.n = 0 -> NaN
      [] b.n > 0 -> RatNorm(a.n * b.d, a.d * b.n)
      [] b.n < 0 -> RatNorm(-(a.n * b.d), -(a.d * b.n))

\* qualitySettings[quality].step
StepOf(quality) ==
    CASE quality = "low" -> 8
      [] quality = "medium" -> 4
      [] quality = "high" -> 2
      [] quality = "ultra" -> 1

\* Mutant: the quotient is rounded down.
GridSize_Floor(size, step) == size \div step

\* Math.ceil(size / step)
GridSize(size, step) == (size + step - 1) \div step

\* originalWidth || width: 0 stands for an absent or zero original size.
Physical(original, current) == IF original = 0 THEN current ELSE original

\* The vertex pushed for grid position (x, y).  modelHeight is in tenths.
VertexAt(p, img, gridWidth, gridHeight, x, y) ==
    LET step == StepOf(p.quality)
        imgX == MinInt(x * step, p.width - 1)
        imgY == MinInt(y * step, p.height - 1)
        pixel == img.data[imgY * p.width + imgX]
        depth == IF pixel[4] > 32 THEN RatNorm(pixel[1], 255) ELSE RatOf(0)
        physicalWidth == Physical(p.originalWidth, p.width)
        physicalHeight == Physical(p.originalHeight, p.height)
        half == RatNorm(1, 2)
        worldX == RatMul(RatSub(RatDiv(RatOf(x), RatOf(gridWidth - 1)), half), RatOf(10))
        worldY == RatMul(RatMul(RatSub(RatDiv(RatOf(gridHeight - 1 - y),
                                              RatOf(gridHeight - 1)), half),
                                RatOf(10)),
                         RatDiv(RatOf(physicalHeight), RatOf(physicalWidth)))
        worldZ == RatMul(RatMul(depth, RatNorm(p.modelHeight, 10)), RatNorm(1, 20))
    IN  <<worldX, worldY, worldZ>>

RECURSIVE VertexLoop(_, _, _, _, _, _, _)
\* The vertex loops from (x, y) on; vertex i of the code is vertices[i + 1].
VertexLoop(p, img, gridWidth, gridHeight, y, x, vertices) ==
    IF y >= gridHeight THEN vertices
    ELSE IF x >= gridWidth THEN VertexLoop(p, img, gridWidth, gridHeight, y + 1, 0, vertices)
    ELSE VertexLoop(p, img, gridWidth, gridHeight, y, x + 1,
                    Append(vertices, VertexAt(p, img, gridWidth, gridHeight, x, y)))

RECURSIVE FaceLoop(_, _, _, _, _, _)
\* The face loops from (x, y) on, over rows 0..rows-1 and columns 0..cols-1.
FaceLoop(gridWidth, rows, cols, y, x, faces) ==
    IF y >= rows THEN faces
    ELSE IF x >= cols THEN FaceLoop(gridWidth, rows, cols, y + 1, 0, faces)
    ELSE LET topLeft == y * gridWidth + x
             topRight == y * gridWidth + (x + 1)
             bottomLeft == (y + 1) * gridWidth + x
             bottomRight == (y + 1) * gridWidth + (x + 1)
         IN  FaceLoop(gridWidth, rows, cols, y, x + 1,
                      faces \o <<topLeft, bottomLeft, topRight,
                                 topRight, bottomLeft, bottomRight>>)

BuildFaces(gridWidth, gridHeight) ==
    FaceLoop(gridWidth, gridHeight - 1, gridWidth - 1, 0, 0, <<>>)

\* length > 0 for length = Math.sqrt(x*x + y*y + z*z): false for NaN.
LengthPositive(v) ==
    /\ ~IsNaN(v[1]) /\ ~IsNaN(v[2]) /\ ~IsNaN(v[3])
    /\ v[1].n # 0 \/ v[2].n # 0 \/ v[3].n # 0

\* Mutant: the two factors of the cross product are exchanged.
TriangleNormal_Swapped(vertices, a, b, c) ==
    LET v1x == RatSub(vertices[b + 1][1], vertices[a + 1][1])
        v1y == RatSub(vertices[b + 1][2], vertices[a + 1][2])
        v1z == RatSub(vertices[b + 1][3], vertices[a + 1][3])
        v2x == RatSub(vertices[c + 1][1], vertices[a + 1][1])
        v2y == RatSub(vertices[c + 1][2], vertices[a + 1][2])
        v2z == RatSub(vertices[c + 1][3], vertices[a + 1][3])
        nx == RatSub(RatMul(v1z, v2y), RatMul(v1y, v2z))
        ny == RatSub(RatMul(v1x, v2z), RatMul(v1z, v2x))
        nz == RatSub(RatMul(v1y, v2x), RatMul(v1x, v2y))
    IN  IF LengthPositive(<<nx, ny, nz>>) THEN <<nx, ny, nz>>
        ELSE <<RatOf(0), RatOf(0), RatOf(1)>>

\* The normal the triangle (a, b, c) adds to its vertices: the cross product
\* <<nx, ny, nz>> standing for that vector divided by its length, or (0, 0, 1).
TriangleNormal(vertices, a, b, c) ==
    LET v1x == RatSub(vertices[b + 1][1], vertices[a + 1][1])
        v1y == RatSub(vertices[b + 1][2], vertices[a + 1][2])
        v1z == RatSub(vertices[b + 1][3], vertices[a + 1][3])
        v2x == RatSub(vertices[c + 1][1], vertices[a + 1][1])
        v2y == RatSub(vertices[c + 1][2], vertices[a + 1][2])
        v2z == RatSub(vertices[c + 1][3], vertices[a + 1][3])
        nx == RatSub(RatMul(v1y, v2z), RatMul(v1z, v2y))
        ny == RatSub(RatMul(v1z, v2x), RatMul(v1x, v2z))
        nz == RatSub(RatMul(v1x, v2y), RatMul(v1y, v2x))
    IN  IF LengthPositive(<<nx, ny, nz>>) THEN <<nx, ny, nz>>
        ELSE <<RatOf(0), RatOf(0), RatOf(1)>>

RECURSIVE AccumulateLoop(_, _, _, _)
\* The accumulation loop from faces[i] on.  normalArray[v + 1] is the
\* sequence of unit normals added to vertex v so far; <<>> is the zero vector.
AccumulateLoop(vertices, faces, i, normalArray) ==
    IF i > Len(faces) THEN normalArray
    ELSE LET nn == TriangleNormal(vertices, faces[i], faces[i + 1], faces[i + 2])
         IN  AccumulateLoop(vertices, faces, i + 3,
                 [normalArray EXCEPT ![faces[i] + 1] = Append(@, nn),
                                     ![faces[i + 1] + 1] = Append(@, nn),
                                     ![faces[i + 2] + 1] = Append(@, nn)])

\* Whether a sum of unit vectors is the zero vector: "zero" for the empty
\* sum, "nonzero" when along some axis the terms have one sign and are not all
\* 0, "unknown" otherwise.
SumSign(terms) ==
    IF terms = <<>> THEN "zero"
    ELSE IF \E axis \in 1..3 :
               /\ \/ \A j \in 1..Len(terms) : terms[j][axis].n >= 0
                  \/ \A j \in 1..Len(terms) : terms[j][axis].n <= 0
               /\ \E j \in 1..Len(terms) : terms[j][axis].n # 0
         THEN "nonzero"
         ELSE "unknown"

\* Mutant: the division by length is not guarded by length > 0.
NormalizeNormal_Unguarded(terms) ==
    CASE SumSign(terms) = "nonzero" -> [kind |-> "unit", sum |-> terms]
      [] SumSign(terms) = "zero" -> [kind |-> "nan", sum |-> terms]
      [] OTHER -> [kind |-> "unknown", sum |-> terms]

\* The output normal of a vertex: the accumulated sum divided by its length
\* when the length is positive, (0, 0, 1) otherwise.
NormalizeNormal(terms) ==
    CASE SumSign(terms) = "nonzero" -> [kind |-> "unit", sum |-> terms]
      [] SumSign(terms) = "zero" -> [kind |-> "default", sum |-> <<>>]
      [] OTHER -> [kind |-> "unknown", sum |-> terms]

\* The body of the geometry memo once imageData is set.
BuildGeometry(p, img) ==
    LET gridWidth == GridSize(p.width, StepOf(p.quality))
        gridHeight == GridSize(p.height, StepOf(p.quality))
        vertices == VertexLoop(p, img, gridWidth, gridHeight, 0, 0, <<>>)
        faces == BuildFaces(gridWidth, gridHeight)
        normalArray == AccumulateLoop(vertices, faces, 1,
                                      [v \in 1..Len(vertices) |-> <<>>])
    IN  [gridWidth |-> gridWidth, gridHeight |-> gridHeight,
         vertices |-> vertices, faces |-> faces,
         normals |-> [v \in 1..Len(vertices) |-> NormalizeNormal(normalArray[v])]]

(***************************************************************************)
(* PreciseDepthMapModel as a state machine: the image behind depthMapUrl   *)
(* loads, then the geometry memo runs.                                     *)
(***************************************************************************)
\* Depth rasters: full height everywhere, a ramp, one raised pixel, and full
\* height with one transparent pixel.
MeshShapes == {"flat", "ramp", "bump", "hole"}

MeshRaster(w, h, shape) ==
    [width |-> w, height |-> h,
     data |-> [i \in Pixels(w, h) |->
                 CASE shape = "flat" -> <<255, 255, 255, 255>>
                   [] shape = "ramp" ->
                        LET v == MinInt(255, 60 * (i % w) + 25 * (i \div w))
                        IN  <<v, v, v, 255>>
                   [] shape = "bump" ->
                        IF i = 0 THEN <<255, 255, 255, 255>> ELSE <<0, 0, 0, 255>>
                   [] shape = "hole" ->
                        IF i = 0 THEN <<0, 0, 0, 0>> ELSE <<255, 255, 255, 255>>]]

InitMesh ==
    /\ IdleRun
    /\ IdleDF
    /\ IdleFn
    /\ IdleEdges
    /\ props \in {[image |-> MeshRaster(w, h, shape), width |-> w, height |-> h,
                   originalWidth |-> o[1], originalHeight |-> o[2],
                   modelHeight |-> mh, quality |-> q] :
                     w \in 1..MeshW, h \in 1..MeshH, shape \in MeshShapes,
                     o \in {<<0, 0>>, <<3, 2>>}, mh \in {5, 50},
                     q \in {"low", "medium", "high", "ultra"}}
    /\ imageData = <<>>
    /\ geometry = <<>>
    /\ mpc = "loading"

\* img.onload: setImageData(data)
LoadImage ==
    /\ mpc = "loading"
    /\ imageData' = props.image
    /\ mpc' = "loaded"
    /\ UNCHANGED <<props, geometry, dfVars, fnVars, edgeVars, runVars>>

\* useMemo(() => { ... return geometry })
Geometry ==
    /\ mpc = "loaded"
    /\ geometry' = BuildGeometry(props, imageData)
    /\ mpc' = "built"
    /\ UNCHANGED <<props, imageData, dfVars, fnVars, edgeVars, runVars>>

NextMesh == LoadImage \/ Geometry

SpecMesh == InitMesh /\ [][NextMesh]_vars

(***************************************************************************)
(* The application: processImageWithEdgesOptimized with every toggle on    *)
(* small rasters, the 3D model built from the depth map it returned, and   *)
(* the same image processed a second time with the same settings.          *)
(***************************************************************************)
Transparent(n) ==
    [width |-> n, height |-> n, data |-> [i \in Pixels(n, n) |-> <<10, 20, 30, 0>>]]

\* A raster wider than high, with one transparent corner.
Oblong(n) ==
    [width |-> n, height |-> n - 1,
     data |-> [i \in Pixels(n, n - 1) |-> <<10, 20, 30, IF i = 0 THEN 0 ELSE 255>>]]

DPISources == SourceRasters(RasterD) \cup {Transparent(RasterD), Oblong(RasterD)}

DPIOptionSets ==
    {[edgeType |-> "vertical", edgeWidth |-> 1, chamferAngle |-> 45],
     [edgeType |-> "rounded", edgeWidth |-> 2, chamferAngle |-> 45],
     [edgeType |-> "chamfered", edgeWidth |-> 2, chamferAngle |-> 27]}

\* 72 needs no upscale; 144 doubles the raster; 150 is the lowest setting of
\* the application, factor 25/12.
TargetDPIs == {72, 144, 150}

\* A switched-off stage keeps the default of its parameter.
DPIToggleSets ==
    {[enableDPIOptimization |-> d, targetDPI |-> t, enableEdgeSmoothing |-> e,
      smoothingStrength |-> s] :
        d \in BOOLEAN, t \in TargetDPIs \cup {300}, e \in BOOLEAN, s \in {30, 60, 100}}

\* modelHeight (in tenths) and quality settings of the viewer
ModelSettings == {<<5, "high">>, <<15, "medium">>, <<50, "low">>}

NoDepthMap(modelHeight, quality) ==
    [image |-> <<>>, width |-> 0, height |-> 0, originalWidth |-> 0,
     originalHeight |-> 0, modelHeight |-> modelHeight, quality |-> quality]

InitDPI ==
    /\ IdleRun
    /\ IdleDF
    /\ IdleFn
    /\ source \in DPISources
    /\ options \in DPIOptionSets
    /\ toggles \in {t \in DPIToggleSets :
                       /\ t.enableDPIOptimization <=> t.targetDPI # 300
                       /\ t.enableEdgeSmoothing <=> t.smoothingStrength # 60}
    /\ processed = <<>>
    /\ output = <<>>
    /\ distanceField = <<>>
    /\ ppc = "start"
    /\ props \in {NoDepthMap(m[1], m[2]) : m \in ModelSettings}
    /\ imageData = <<>>
    /\ geometry = <<>>
    /\ mpc = "idle"

\* if (enableDPIOptimization) return optimizeDepthMapDPI(...)
OptimizeDPI ==
    /\ ppc = "edges"
    /\ toggles.enableDPIOptimization
    /\ output' = OptimizeDepthMapDPI(processed, toggles.targetDPI, 0,
                                     toggles.enableEdgeSmoothing,
                                     toggles.smoothingStrength)
    /\ ppc' = "returned"
    /\ UNCHANGED <<source, options, toggles, processed, distanceField, dfVars, fnVars, meshVars, runVars>>

\* setProcessedImages: the viewer receives the depth map and its sizes
ShowModel ==
    /\ ppc = "returned"
    /\ mpc = "idle"
    /\ props' = [props EXCEPT !.image = output,
                              !.width = output.width,
                              !.height = output.height,
                              !.originalWidth = source.width,
                              !.originalHeight = source.height]
    /\ mpc' = "loading"
    /\ UNCHANGED <<imageData, geometry, dfVars, fnVars, edgeVars, runVars>>

\* The application processes the same image with the same settings again.
ProcessAgain ==
    /\ mpc = "built"
    /\ ppc = "returned"
    /\ earlier = <<>>
    /\ earlier' = [depthMap |-> output, geometry |-> geometry]
    /\ processed' = <<>>
    /\ output' = <<>>
    /\ distanceField' = <<>>
    /\ ppc' = "start"
    /\ props' = NoDepthMap(props.modelHeight, props.quality)
    /\ imageData' = <<>>
    /\ geometry' = <<>>
    /\ mpc' = "idle"
    /\ UNCHANGED <<source, options, toggles, dfVars, fnVars, appVars, stlVars>>

NextDPI ==
    \/ RunEdges
    \/ OptimizeDPI
    \/ SmoothOnly
    \/ ReturnProcessed
    \/ ShowModel
    \/ LoadImage
    \/ Geometry
    \/ ProcessAgain

SpecDPI == InitDPI /\ [][NextDPI]_vars

(***************************************************************************)
(* The App component: parameter state, the debounce timer and the runs of  *)
(* the pipeline.  A useEffect whose dependencies are the seven parameters  *)
(* and originalImageData runs after every render that changed one of them; *)
(* its cleanup runs first.                                                 *)
(***************************************************************************)
\* window.setTimeout(..., 300)
DebounceDelay == 300

\* The whole of processImageWithEdgesOptimized, for its caller.
ProcessImageWithEdgesOptimized(img, opts, enableDPIOptimization, targetDPI, enableEdgeSmoothing, smoothingStrength) ==
    LET processedImageData == ProcessImageWithEdges(img, opts).result
    IN  IF enableDPIOptimization
        THEN OptimizeDepthMapDPI(processedImageData, targetDPI, 0, enableEdgeSmoothing,
                                 smoothingStrength)
        ELSE IF enableEdgeSmoothing
        THEN IntelligentEdgeSmoothing(processedImageData, smoothingStrength)
        ELSE processedImageData

\* The useState initial values of the seven parameters.
InitialParams ==
    [edgeType |-> "vertical", edgeWidth |-> 20, chamferAngle |-> 45,
     enableDPIOptimization |-> TRUE, targetDPI |-> 300,
     enableEdgeSmoothing |-> TRUE, smoothingStrength |-> 60]

\* The values the controls of the model can set each parameter to.
ParamValues ==
    [edgeType |-> {"vertical", "rounded"}, edgeWidth |-> {20, 1}, chamferAngle |-> {45, 30},
     enableDPIOptimization |-> BOOLEAN, targetDPI |-> {300, 150},
     enableEdgeSmoothing |-> BOOLEAN, smoothingStrength |-> {60, 100}]

AppRasters == {Transparent(RasterA), Oblong(RasterA)}

\* The arguments processImages passes to processImageWithEdgesOptimized.
CallOf(img, params) ==
    [imageData |-> img,
     depthMapOptions |-> [edgeType |-> params.edgeType, edgeWidth |-> params.edgeWidth,
                          chamferAngle |-> params.chamferAngle],
     enableDPIOptimization |-> params.enableDPIOptimization,
     targetDPI |-> params.targetDPI,
     enableEdgeSmoothing |-> params.enableEdgeSmoothing,
     smoothingStrength |-> params.smoothingStrength]

AllParams ==
    [edgeType : ParamValues.edgeType, edgeWidth : ParamValues.edgeWidth,
     chamferAngle : ParamValues.chamferAngle,
     enableDPIOptimization : ParamValues.enableDPIOptimization,
     targetDPI : ParamValues.targetDPI,
     enableEdgeSmoothing : ParamValues.enableEdgeSmoothing,
     smoothingStrength : ParamValues.smoothingStrength]

\* The raster processImageWithEdgesOptimized returns for each call the App
\* can make, computed once.
DepthMapOf ==
    Tabulate([c \in {CallOf(img, params) : img \in AppRasters, params \in AllParams} |->
        LET r == ProcessImageWithEdgesOptimized(c.imageData, c.depthMapOptions,
                                                c.enableDPIOptimization, c.targetDPI,
                                                c.enableEdgeSmoothing, c.smoothingStrength)
        IN  [r EXCEPT !.data = Tabulate(@)]])

\* processImages of the render whose parameters are params: the value given
\* to setProcessedImages.
ProcessImages(img, params) ==
    CHOOSE images \in
        {[depthMap |-> depthMapImageData,
          width |-> depthMapImageData.width, height |-> depthMapImageData.height,
          originalWidth |-> img.width, originalHeight |-> img.height] :
             depthMapImageData \in {DepthMapOf[CallOf(img, params)]}} : TRUE

\* Mutant: clearTimeout leaves the timer pending.
ClearTimeout_Ignored(pending, id) == pending

\* window.clearTimeout(id)
ClearTimeout(pending, id) == {t \in pending : t.id # id}

\* The cleanup of the previous effect.
EffectCleanup(a, pending) ==
    IF a.debounceTimer # 0 THEN ClearTimeout(pending, a.debounceTimer) ELSE pending

\* The effect after a render of state a with id the next timer id: the
\* state and the pending timers it leaves.
RunEffect(a, pending, id) ==
    LET cleaned == EffectCleanup(a, pending)
    IN  IF a.originalImageData # <<>>
        THEN [app |-> [a EXCEPT !.isDebouncing = TRUE, !.debounceTimer = id],
              timers |-> EffectCleanup(a, cleaned)
                            \cup {[id |-> id, due |-> now + DebounceDelay,
                                   imageData |-> a.originalImageData,
                                   params |-> a.params]},
              armed |-> TRUE]
        ELSE [app |-> a, timers |-> cleaned, armed |-> FALSE]

InitApp ==
    /\ IdleDF
    /\ IdleFn
    /\ IdleEdges
    /\ IdleMesh
    /\ earlier = <<>>
    /\ IdleSTL
    /\ app = [params |-> InitialParams, originalImageData |-> <<>>,
              processedImages |-> <<>>, isProcessing |-> FALSE, isDebouncing |-> FALSE,
              debounceTimer |-> 0, loading |-> <<>>]
    /\ timers = {}
    /\ now = 0
    /\ hist = [events |-> 0, nextId |-> 1, lastArm |-> -1, runsSinceArm |-> 0,
               changes |-> 0, lastCall |-> <<>>]

\* handleFileSelect up to the await of loadImageFromFile
SelectFile ==
    /\ app # <<>>
    /\ app.loading = <<>>
    /\ hist.events < MaxEvents
    /\ \E img \in AppRasters :
          app' = [app EXCEPT !.isProcessing = TRUE,
                             !.loading = [imageData |-> img, params |-> app.params]]
    /\ hist' = [hist EXCEPT !.events = @ + 1]
    /\ UNCHANGED <<timers, now, earlier, dfVars, fnVars, edgeVars, meshVars, stlVars>>

\* handleFileSelect after the await: setOriginalImageData, processImages of
\* the render in which the file was selected, then the effect.
FileLoaded ==
    /\ app # <<>>
    /\ app.loading # <<>>
    /\ \E img \in {app.loading.imageData} :
       \E a \in {[app EXCEPT !.originalImageData = img,
                             !.processedImages = ProcessImages(img, app.loading.params),
                             !.isProcessing = FALSE,
                             !.loading = <<>>]} :
       \E e \in {IF img # app.originalImageData
                  THEN RunEffect(a, timers, hist.nextId)
                  ELSE [app |-> a, timers |-> timers, armed |-> FALSE]} :
           /\ app' = e.app
           /\ timers' = e.timers
           /\ hist' = [hist EXCEPT !.lastCall = CallOf(img, app.loading.params),
                                   !.nextId = IF e.armed THEN @ + 1 ELSE @,
                                   !.lastArm = IF e.armed THEN now ELSE @,
                                   !.runsSinceArm = IF e.armed THEN 0 ELSE @,
                                   !.changes = IF e.armed THEN 0 ELSE @]
    /\ UNCHANGED <<now, earlier, dfVars, fnVars, edgeVars, meshVars, stlVars>>

\* One of the seven parameter controls sets its state to another value; the
\* effect runs after the render.
ChangeParameter ==
    /\ app # <<>>
    /\ hist.events < MaxEvents
    /\ \E field \in DOMAIN ParamValues : \E value \in ParamValues[field] :
          /\ value # app.params[field]
          /\ LET e == RunEffect([app EXCEPT !.params[field] = value], timers, hist.nextId)
             IN  /\ app' = e.app
                 /\ timers' = e.timers
                 /\ hist' = [hist EXCEPT !.events = @ + 1,
                                         !.nextId = IF e.armed THEN @ + 1 ELSE @,
                                         !.lastArm = IF e.armed THEN now ELSE @,
                                         !.runsSinceArm = IF e.armed THEN 0 ELSE @,
                                         !.changes = IF ~e.armed THEN @
                                                     ELSE IF hist.runsSinceArm = 0 THEN @ + 1
                                                     ELSE 1]
    /\ UNCHANGED <<now, earlier, dfVars, fnVars, edgeVars, meshVars, stlVars>>

\* The timer callback: setIsDebouncing(false), then processImages(imageData)
\* of the render that armed the timer.
TimerFires ==
    /\ \E t \in timers :
          /\ t.due <= now
          /\ timers' = timers \ {t}
          /\ app' = [app EXCEPT !.isDebouncing = FALSE,
                                !.isProcessing = FALSE,
                                !.processedImages = ProcessImages(t.imageData, t.params)]
          /\ hist' = [hist EXCEPT !.runsSinceArm = @ + 1,
                                  !.lastCall = CallOf(t.imageData, t.params)]
    /\ UNCHANGED <<now, earlier, dfVars, fnVars, edgeVars, meshVars, stlVars>>

\* Time passes; a timer that is due fires before time passes further.
Tick ==
    /\ app # <<>>
    /\ now < MaxTime
    /\ \A t \in timers : t.due > now
    /\ now' = now + TickMs
    /\ UNCHANGED <<app, timers, hist, earlier, dfVars, fnVars, edgeVars, meshVars, stlVars>>

NextApp == SelectFile \/ FileLoaded \/ ChangeParameter \/ TimerFires \/ Tick

SpecApp == InitApp /\ [][NextApp]_vars

(***************************************************************************)
(* exportSTL: generateSTLFromGrayscale.  Lengths are kept exactly: a       *)
(* height is the numerator of a fraction over 2550 (grayscale / 255 times  *)
(* maxHeight, maxHeight in tenths of a mm), x and y are pixel counts, each *)
(* pixel 0.1 mm = 255/2550 mm.  The text is the sequence of its lines.     *)
(***************************************************************************)
GetHeightAtPixel(img, x, y, maxHeight) ==
    IF x < 0 \/ x >= img.width \/ y < 0 \/ y >= img.height THEN 0
    ELSE img.data[y * img.width + x][1] * maxHeight

\* toFixed(6) of a coordinate, in millionths: x * 0.1 for pixel counts
PixelToFixed(x) == x * 100000

\* z / 2550 = (z * 20000 / 51) millionths
HeightToFixed(z) == RoundDiv(z * 20000, 51)

\* calculateNormal: the cross product, in units of 255/2550^2 mm^2, and
\* whether it was divided by its length (length > 0).
CalculateNormal(v1, v2, v3) ==
    LET u == [x |-> v2.x - v1.x, y |-> v2.y - v1.y, z |-> v2.z - v1.z]
        v == [x |-> v3.x - v1.x, y |-> v3.y - v1.y, z |-> v3.z - v1.z]
        normal == [x |-> u.y * v.z - u.z * v.y,
                   y |-> u.z * v.x - u.x * v.z,
                   z |-> 255 * (u.x * v.y - u.y * v.x)]
    IN  [x |-> normal.x, y |-> normal.y, z |-> normal.z,
         normalized |-> (normal.x # 0 \/ normal.y # 0 \/ normal.z # 0)]

\* The sign toFixed(6) prints for component c of a normal.  The component
\* divided by the length would be printed as 0.000000 if it were below
\* 0.0000005; with the heights of the model the squared length is below
\* 2^31, so a component that is not 0 is at least 1/46341 of the length.
PrintedSign(normal, c) ==
    IF c = 0 THEN "zero" ELSE IF c > 0 THEN "positive" ELSE "negative"

\* createTriangle: the seven lines of one facet record.
CreateTriangle(v1, v2, v3) ==
    LET normal == CalculateNormal(v1, v2, v3)
        vertex(v) == <<"vertex", PixelToFixed(v.x), PixelToFixed(v.y), HeightToFixed(v.z)>>
    IN  << <<"facet normal", normal, PrintedSign(normal, normal.z)>>,
           <<"outer loop">>,
           vertex(v1), vertex(v2), vertex(v3),
           <<"endloop">>,
           <<"endfacet">> >>

\* Mutant: the triangles are pushed without the test of the heights.
QuadTriangles_NoHeightTest(img, maxHeight, x, y) ==
    LET heights == <<GetHeightAtPixel(img, x, y, maxHeight),
                     GetHeightAtPixel(img, x + 1, y, maxHeight),
                     GetHeightAtPixel(img, x, y + 1, maxHeight),
                     GetHeightAtPixel(img, x + 1, y + 1, maxHeight)>>
        vertices == <<[x |-> x, y |-> y, z |-> heights[1]],
                      [x |-> x + 1, y |-> y, z |-> heights[2]],
                      [x |-> x, y |-> y + 1, z |-> heights[3]],
                      [x |-> x + 1, y |-> y + 1, z |-> heights[4]]>>
    IN  <<CreateTriangle(vertices[1], vertices[2], vertices[3]),
          CreateTriangle(vertices[2], vertices[4], vertices[3])>>

\* The body of the pixel loops: the triangles pushed for the quad at (x, y).
QuadTriangles(img, maxHeight, x, y) ==
    LET heights == <<GetHeightAtPixel(img, x, y, maxHeight),
                     GetHeightAtPixel(img, x + 1, y, maxHeight),
                     GetHeightAtPixel(img, x, y + 1, maxHeight),
                     GetHeightAtPixel(img, x + 1, y + 1, maxHeight)>>
        vertices == <<[x |-> x, y |-> y, z |-> heights[1]],
                      [x |-> x + 1, y |-> y, z |-> heights[2]],
                      [x |-> x, y |-> y + 1, z |-> heights[3]],
                      [x |-> x + 1, y |-> y + 1, z |-> heights[4]]>>
    IN  IF \E i \in 1..4 : heights[i] > 0
        THEN (IF heights[1] > 0 \/ heights[2] > 0 \/ heights[3] > 0
              THEN <<CreateTriangle(vertices[1], vertices[2], vertices[3])>> ELSE <<>>)
             \o (IF heights[2] > 0 \/ heights[3] > 0 \/ heights[4] > 0
                 THEN <<CreateTriangle(vertices[2], vertices[4], vertices[3])>> ELSE <<>>)
        ELSE <<>>

RECURSIVE TriangleLoop(_, _, _, _, _)
\* The pixel loops from (x, y) on.
TriangleLoop(img, maxHeight, y, x, triangles) ==
    IF y >= img.height - 1 THEN triangles
    ELSE IF x >= img.width - 1 THEN TriangleLoop(img, maxHeight, y + 1, 0, triangles)
    ELSE TriangleLoop(img, maxHeight, y, x + 1,
                      triangles \o QuadTriangles(img, maxHeight, x, y))

RECURSIVE JoinLines(_, _)
\* triangles.join('\n'), as lines: the empty string is one empty line.
JoinLines(triangles, i) ==
    IF triangles = <<>> THEN << <<"">> >>
    ELSE IF i > Len(triangles) THEN <<>>
    ELSE triangles[i] \o JoinLines(triangles, i + 1)

GenerateSTLFromGrayscale(img, maxHeight) ==
    << <<"solid generated_model">> >>
    \o JoinLines(TriangleLoop(img, maxHeight, 0, 0, <<>>), 1)
    \o << <<"endsolid generated_model">> >>

\* Gray rasters of three levels laid out as flats, stripes, diagonals and
\* corners.
GrayLevels == <<0, 90, 255>>

GrayRaster(w, h, a, b, c, d) ==
    [width |-> w, height |-> h,
     data |-> [i \in Pixels(w, h) |->
                 LET x == i % w
                     y == i \div w
                     g == GrayLevels[((a * x + b * y + c * x * y + d) % 3) + 1]
                 IN  <<g, g, g, 255>>]]

\* maxHeight in tenths of a mm: 0 and the range of the model height control.
ExportHeights == {0, 5, 15, 50}

InitSTL ==
    /\ IdleDF
    /\ IdleFn
    /\ IdleEdges
    /\ IdleMesh
    /\ earlier = <<>>
    /\ IdleApp
    /\ exportOptions \in {[grayscaleData |-> GrayRaster(w, h, a, b, c, d), height |-> m] :
                            w \in 1..RasterS, h \in 1..RasterS, a \in 0..2, b \in 0..2,
                            c \in 0..2, d \in 0..2, m \in ExportHeights}
    /\ stlContent = <<>>
    /\ xpc = "call"

\* const stlContent = generateSTLFromGrayscale(grayscaleData, height)
ExportSTL ==
    /\ xpc = "call"
    /\ stlContent' = GenerateSTLFromGrayscale(exportOptions.grayscaleData, exportOptions.height)
    /\ xpc' = "returned"
    /\ UNCHANGED <<exportOptions, earlier, appVars, dfVars, fnVars, edgeVars, meshVars>>

NextSTL == ExportSTL

SpecSTL == InitSTL /\ [][NextSTL]_vars

(***************************************************************************)
(* Reference notions used by the properties of the distance field.         *)
(***************************************************************************)
Unreached == <<10000, 0>>

\* Pixel i is inside and one of its 8 neighbours is outside the mask or
\* outside the raster.
EdgePixel(i) ==
    /\ contour[i]
    /\ \E dx \in -1..1, dy \in -1..1 :
        /\ <<dx, dy>> # <<0, 0>>
        /\ LET nx == (i % width) + dx
               ny == (i \div width) + dy
           IN  \/ nx < 0 \/ nx >= width \/ ny < 0 \/ ny >= height
               \/ ~contour[ny * width + nx]

\* The inside 8-neighbours of pixel i, each with the cost of the step.
InsideNeighbours(i) ==
    LET cx == i % width
        cy == i \div width
    IN  {<<(cy + o[2]) * width + (cx + o[1]), IF o[1] = 0 \/ o[2] = 0 THEN <<1, 0>> ELSE <<0, 1>>>> :
            o \in {o \in (-1..1) \X (-1..1) :
                /\ o # <<0, 0>>
                /\ cx + o[1] >= 0 /\ cx + o[1] < width
                /\ cy + o[2] >= 0 /\ cy + o[2] < height
                /\ contour[(cy + o[2]) * width + (cx + o[1])]}}

LeastOf(S) == CHOOSE m \in S : \A s \in S : LessEq(m, s)

\* One round of Bellman-Ford over the inside pixels.
PathRound(L) ==
    [i \in Pixels(width, height) |->
        IF ~contour[i] THEN Unreached
        ELSE LeastOf({L[i]} \cup {Add(L[n[1]], n[2]) : n \in InsideNeighbours(i)})]

RECURSIVE PathFix(_)
PathFix(L) == LET M == PathRound(L) IN IF M = L THEN L ELSE PathFix(M)

\* Length of the shortest 8-connected path through inside pixels from each
\* inside pixel to an edge pixel.
LatticePath ==
    PathFix([i \in Pixels(width, height) |-> IF EdgePixel(i) THEN Zero ELSE Unreached])

(***************************************************************************)
(* C1: when calculateDistanceFieldFast returns, every inside pixel holds   *)
(* min(maxDistance, L), L the length of the shortest 8-connected lattice   *)
(* path (1 per orthogonal, sqrt(2) per diagonal step, inside pixels only)  *)
(* to an edge pixel.                                                       *)
(***************************************************************************)
C1_ShortestPathClamped ==
    pc = "done" =>
        LET L == LatticePath
        IN  \A i \in Pixels(width, height) :
                contour[i] => distances[i] = MinNum(maxDistance, L[i])

\* A returned field in which a pixel is reached by a diagonal step (sqrt(2))
\* and another by one orthogonal step.
C1_Witness ==
    /\ pc = "done"
    /\ \E i \in Pixels(width, height) : distances[i] = <<0, 1>>
    /\ \E i \in Pixels(width, height) : distances[i] = <<1, 0>> /\ Less(distances[i], maxDistance)

(***************************************************************************)
(* C2: after seeding, in every state of the propagation loop and in the    *)
(* returned field, a value is -1 exactly at the outside pixels, every      *)
(* inside value lies in [0, maxDistance], and no step writes an outside    *)
(* pixel.                                                                  *)
(***************************************************************************)
SentinelIffOutside(d) ==
    \A i \in Pixels(width, height) :
        /\ (d[i] = Sentinel) <=> ~contour[i]
        /\ contour[i] => LessEq(Zero, d[i]) /\ LessEq(d[i], maxDistance)

C2_SentinelAndRange ==
    [][/\ pc # "seed" => SentinelIffOutside(distances)
       /\ pc' # "seed" => SentinelIffOutside(distances')
       /\ \A i \in Pixels(width, height) : ~contour[i] => distances'[i] = distances[i]]_vars

\* The loop has relaxed an inside pixel next to which an outside pixel lies
\* two steps away.
C2_Witness ==
    /\ pc = "loop"
    /\ queueIndex > 0
    /\ \E i \in Pixels(width, height) : ~contour[i]
    /\ \E i \in Pixels(width, height) : Less(Zero, distances[i]) /\ Less(distances[i], maxDistance)

(***************************************************************************)
(* C3: an inside pixel ends at distance 0 exactly when it is an edge pixel;*)
(* seeding gives every edge pixel distance 0 and a frontier entry, and no  *)
(* later step changes it.                                                  *)
(***************************************************************************)
C3_EdgeIffZero ==
    [][/\ (pc = "seed" /\ pc' = "loop") =>
            \A i \in Pixels(width, height) :
                EdgePixel(i) =>
                    /\ distances'[i] = Zero
                    /\ \E k \in 1..Len(queue') :
                          queue'[k] = [x |-> i % width, y |-> i \div width, dist |-> Zero]
       /\ pc # "seed" =>
            \A i \in Pixels(width, height) : EdgePixel(i) => distances'[i] = distances[i]
       /\ pc' = "done" =>
            \A i \in Pixels(width, height) :
                contour[i] => ((distances'[i] = Zero) <=> EdgePixel(i))]_vars

\* A returned field with a pixel that is an edge only through a diagonal
\* neighbour inside the raster, and with a pixel that is no edge.
C3_Witness ==
    /\ pc = "done"
    /\ \E i \in Pixels(width, height) : contour[i] /\ ~EdgePixel(i)
    /\ \E i \in Pixels(width, height) :
        /\ EdgePixel(i)
        /\ i % width > 0 /\ i % width < width - 1
        /\ i \div width > 0 /\ i \div width < height - 1
        /\ contour[i - 1] /\ contour[i + 1] /\ contour[i - width] /\ contour[i + width]

(***************************************************************************)
(* C6 as stated: calculateRoundedDepth(d, W) is 0 at d = 0, 255 for every  *)
(* d >= W, and strictly increasing in d over [0, W).                       *)
(***************************************************************************)
C6_StrictlyIncreasing ==
    (fpc = "returned" /\ call.fn = "rounded") =>
        /\ call.distance = Zero => ret = 0
        /\ LessEq(Num(call.edgeWidth), call.distance) => ret = 255
        /\ \A d2 \in ProfileDistances :
              (Less(call.distance, d2) /\ Less(d2, Num(call.edgeWidth)))
                  => ret < CalculateRoundedDepth(d2, call.edgeWidth)

(***************************************************************************)
(* C6 amended: calculateRoundedDepth(d, W) is 0 at d = 0, 255 for every    *)
(* d >= W, at most 254 below W, and non-decreasing in d over [0, W).       *)
(***************************************************************************)
C6_NonDecreasing ==
    (fpc = "returned" /\ call.fn = "rounded") =>
        /\ call.distance = Zero => ret = 0
        /\ LessEq(Num(call.edgeWidth), call.distance) => ret = 255
        /\ Less(call.distance, Num(call.edgeWidth)) => ret \in 0..254
        /\ \A d2 \in ProfileDistances :
              (Less(call.distance, d2) /\ Less(d2, Num(call.edgeWidth)))
                  => ret <= CalculateRoundedDepth(d2, call.edgeWidth)

\* A rounded call strictly inside the band whose depth is shared by a larger
\* distance of the band.
C6_Witness ==
    /\ fpc = "returned"
    /\ call.fn = "rounded"
    /\ Less(Zero, call.distance)
    /\ \E d2 \in ProfileDistances :
          /\ Less(call.distance, d2)
          /\ Less(d2, Num(call.edgeWidth))
          /\ ret = CalculateRoundedDepth(d2, call.edgeWidth)

(***************************************************************************)
(* C7: for d >= 0, W > 0 and an angle in (0, 90), calculateChamferedDepth  *)
(* returns 255 when d >= W and otherwise                                   *)
(* floor(255 * clamp(d*tan / max(W*tan, W), 0, 1)); the result is an       *)
(* integer in [0, 255] and non-decreasing in d.                            *)
(***************************************************************************)
MaxOf(m, n) == IF m >= n THEN m ELSE n

\* floor(255 * clamp(d*T / max(W*T, W), 0, 1)) with T = tn/td, td > 0, W > 0:
\* the ratio is d*tn / mx for mx = max(W*tn, W*td).
ChamferFormula(d, W, angle) ==
    LET tn == TanOf(angle)[1]
        td == TanOf(angle)[2]
        mx == MaxOf(W * tn, W * td)
    IN  IF LeSqrt2(mx - tn * d[1], tn * d[2]) THEN 255            \* ratio >= 1
        ELSE IF ~LeSqrt2(-tn * d[1], tn * d[2]) THEN 0            \* ratio < 0
        ELSE CHOOSE n \in 0..255 :
                /\ LeSqrt2(n * mx - 255 * tn * d[1], 255 * tn * d[2])
                /\ ~LeSqrt2((n + 1) * mx - 255 * tn * d[1], 255 * tn * d[2])

C7_ChamferFormula ==
    (fpc = "returned" /\ call.fn = "chamfered" /\ TanOf(call.angle)[1] > 0) =>
        /\ ret \in 0..255
        /\ ret = IF LessEq(Num(call.edgeWidth), call.distance) THEN 255
                 ELSE ChamferFormula(call.distance, call.edgeWidth, call.angle)
        /\ \A d2 \in ProfileDistances :
              Less(call.distance, d2)
                  => ret <= CalculateChamferedDepth(d2, call.edgeWidth, call.angle)

\* A chamfered call inside the band on the steep branch (tan > 1), at a
\* distance with a diagonal part.
C7_Witness ==
    /\ fpc = "returned"
    /\ call.fn = "chamfered"
    /\ call.angle = 63
    /\ call.distance[2] > 0
    /\ Less(call.distance, Num(call.edgeWidth))
    /\ ret > 0 /\ ret < 255

(***************************************************************************)
(* C4: every source pixel with alpha <= 32 is <<0, 0, 0, 0>> in the raster  *)
(* returned by processImageWithEdges, whatever the style, edgeWidth and    *)
(* chamferAngle, and is still <<0, 0, 0, 0>> in the raster                 *)
(* processImageWithEdgesOptimized returns without DPI optimization, with   *)
(* or without intelligentEdgeSmoothing at any of the strengths.            *)
(***************************************************************************)
OutsidePixels == {i \in Pixels(source.width, source.height) : source.data[i][4] <= 32}

C4_OutsideStaysZero ==
    /\ ppc \in {"edges", "returned"} =>
          \A i \in OutsidePixels : processed.data[i] = <<0, 0, 0, 0>>
    /\ ppc = "returned" =>
          \A i \in OutsidePixels : output.data[i] = <<0, 0, 0, 0>>

\* A smoothed vertical raster in which an outside pixel with source alpha 32
\* is an edge pixel of the smoothing, so that the blend was applied to it.
C4_Witness ==
    /\ ppc = "returned"
    /\ toggles.enableEdgeSmoothing
    /\ options.edgeType = "vertical"
    /\ \E i \in OutsidePixels :
          /\ source.data[i][4] = 32
          /\ SmoothIsEdgePixel(processed, i % processed.width, i \div processed.width)

(***************************************************************************)
(* C5: for edgeType = vertical every pixel of the raster returned by       *)
(* processImageWithEdges has depth 255 when the source alpha exceeds 32    *)
(* and depth 0 otherwise, the raster is the same for every edgeWidth and   *)
(* chamferAngle, and no distance field is computed.                        *)
(***************************************************************************)
C5_VerticalBinary ==
    (ppc \in {"edges", "returned"} /\ options.edgeType = "vertical") =>
        /\ \A i \in Pixels(source.width, source.height) :
              /\ processed.data[i][1] = (IF source.data[i][4] > 32 THEN 255 ELSE 0)
              /\ processed.data[i][2] = processed.data[i][1]
              /\ processed.data[i][3] = processed.data[i][1]
        /\ \A o \in OptionSets :
              o.edgeType = "vertical" => ProcessImageWithEdges(source, o).result = processed
        /\ distanceField = <<>>

\* A vertical run with a non-positive edgeWidth on a raster that has pixels
\* on both sides of the alpha threshold, at alpha 32 and 33.
C5_Witness ==
    /\ ppc = "edges"
    /\ options.edgeType = "vertical"
    /\ options.edgeWidth <= 0
    /\ \E i, j \in Pixels(source.width, source.height) :
          source.data[i][4] = 32 /\ source.data[j][4] = 33

(***************************************************************************)
(* C10: processImageWithEdges returns no raster when edgeWidth <= 0 for    *)
(* rounded or chamfered, or when edgeType is chamfered and chamferAngle is *)
(* not strictly between 0 and 90.                                          *)
(***************************************************************************)
InvalidOptions(o) ==
    \/ o.edgeType \in {"rounded", "chamfered"} /\ o.edgeWidth <= 0
    \/ o.edgeType = "chamfered" /\ ~(0 < o.chamferAngle /\ o.chamferAngle < 90)

C10_RejectsInvalid == InvalidOptions(options) => ppc = "start"

(***************************************************************************)
(* C8: for every raster width, height >= 1 and every sampling step the     *)
(* mesh has gridWidth * gridHeight vertices and                            *)
(* 2 * (gridWidth - 1) * (gridHeight - 1) triangles, gridWidth and         *)
(* gridHeight being width / step and height / step rounded up, the step    *)
(* is one of 1, 2, 4, 8, and every triangle index is a vertex index.       *)
(***************************************************************************)
\* The least n with n * step >= size.
CeilOf(size, step) == CHOOSE n \in 0..size : n * step >= size /\ (n - 1) * step < size

C8_MeshCounts ==
    mpc = "built" =>
        LET gw == CeilOf(props.width, StepOf(props.quality))
            gh == CeilOf(props.height, StepOf(props.quality))
        IN  /\ StepOf(props.quality) \in {1, 2, 4, 8}
            /\ geometry.gridWidth = gw
            /\ geometry.gridHeight = gh
            /\ Len(geometry.vertices) = gw * gh
            /\ Len(geometry.faces) = 3 * 2 * (gw - 1) * (gh - 1)
            /\ \A j \in 1..Len(geometry.faces) : geometry.faces[j] \in 0..(gw * gh - 1)

\* A built mesh with triangles whose width is not a multiple of the step.
C8_Witness ==
    /\ mpc = "built"
    /\ StepOf(props.quality) > 1
    /\ props.width % StepOf(props.quality) # 0
    /\ Len(geometry.faces) > 0

(***************************************************************************)
(* C9: every output vertex normal of the mesh is a unit vector or the      *)
(* default (0, 0, 1), never the zero vector and never NaN, also for grids  *)
(* one vertex wide or high, which have no triangle.                        *)
(***************************************************************************)
C9_NormalsUnitOrDefault ==
    mpc = "built" =>
        /\ Len(geometry.normals) = Len(geometry.vertices)
        /\ \A v \in 1..Len(geometry.normals) :
              geometry.normals[v].kind \in {"unit", "default"}

\* A built grid one vertex wide and several high: its x coordinates are NaN,
\* it has no triangle and every normal is the default.
C9_Witness ==
    /\ mpc = "built"
    /\ geometry.gridWidth = 1
    /\ geometry.gridHeight > 1
    /\ \A v \in 1..Len(geometry.vertices) : IsNaN(geometry.vertices[v][1])
    /\ \A v \in 1..Len(geometry.normals) : geometry.normals[v].kind = "default"

(***************************************************************************)
(* C11: a smoothing strength above 1 is clamped to 1: the raster           *)
(* intelligentEdgeSmoothing returns for it is the raster it returns for    *)
(* strength 1.                                                             *)
(***************************************************************************)
C11_StrengthClamped ==
    (ppc = "returned" /\ toggles.smoothingStrength > 100) =>
        output = IntelligentEdgeSmoothing(processed, 100)

(***************************************************************************)
(* C12: the silhouette mask of processImageWithEdges has a pixel inside    *)
(* iff its alpha exceeds 32 when the raster carries alpha, and, when the   *)
(* raster is fully opaque, iff its luminance exceeds the threshold 128; a  *)
(* fully opaque dark raster therefore has no inside pixel.  A pixel is     *)
(* inside the mask exactly when the depth raster keeps a non-zero alpha.   *)
(***************************************************************************)
CarriesAlpha(img) == \E i \in DOMAIN img.data : img.data[i][4] < 255

C12_LuminanceFallback ==
    (ppc \in {"edges", "returned"}) =>
        \A i \in DOMAIN source.data :
            (processed.data[i][4] > 0) <=>
                IF CarriesAlpha(source) THEN source.data[i][4] > 32
                ELSE ExtractContour(source, 128).data[i][1] = 255

RingDepth(i) ==
    MinInt(MinInt(i % width, i \div width),
           MinInt(width - 1 - (i % width), height - 1 - (i \div width)))

InwardStep(i, j) ==
    /\ \E k \in 1..Len(Offsets) :
          /\ j % width = (i % width) + Offsets[k][1]
          /\ j \div width = (i \div width) + Offsets[k][2]
    /\ RingDepth(j) = RingDepth(i) + 1

C15_OpaqueSquareMonotone ==
    (pc = "done" /\ width = height /\ \A i \in Pixels(width, height) : contour[i]) =>
        \A i \in Pixels(width, height) :
            /\ RingDepth(i) = 0 => distances[i] = Zero
            /\ LessEq(Zero, distances[i]) /\ LessEq(distances[i], maxDistance)
            /\ \A j \in Pixels(width, height) :
                  InwardStep(i, j) => LessEq(distances[i], distances[j])

\* An all-opaque raster whose field rises twice on the way to the centre.
C15_Witness ==
    /\ pc = "done"
    /\ \A i \in Pixels(width, height) : contour[i]
    /\ \E i, j, k \in Pixels(width, height) :
          /\ InwardStep(i, j) /\ InwardStep(j, k)
          /\ Less(distances[i], distances[j]) /\ Less(distances[j], distances[k])

(***************************************************************************)
(* C16: for a 4 x 4 raster with alpha 255 everywhere, style rounded and    *)
(* edgeWidth 2, the 12 ring pixels have distance 0 and depth 0, every      *)
(* interior pixel has a distance strictly below edgeWidth, and no pixel of *)
(* the depth raster has depth 255.                                         *)
(***************************************************************************)
OnRing(img, i) ==
    \/ i % img.width = 0 \/ i % img.width = img.width - 1
    \/ i \div img.width = 0 \/ i \div img.width = img.height - 1

C16_SmallOpaqueRounded ==
    (/\ ppc \in {"edges", "returned"}
     /\ source.width = 4 /\ source.height = 4
     /\ \A i \in DOMAIN source.data : source.data[i][4] = 255
     /\ options.edgeType = "rounded" /\ options.edgeWidth = 2) =>
        /\ Cardinality({i \in DOMAIN source.data : OnRing(source, i)}) = 12
        /\ \A i \in DOMAIN source.data :
              /\ OnRing(source, i) =>
                    distanceField[i] = Zero /\ processed.data[i][1] = 0
              /\ ~OnRing(source, i) =>
                    /\ LessEq(Zero, distanceField[i])
                    /\ Less(distanceField[i], Num(options.edgeWidth))
              /\ processed.data[i][1] # 255

\* The depth raster of that input, with an interior pixel raised above 0.
C16_Witness ==
    /\ ppc = "edges"
    /\ source.width = 4 /\ source.height = 4
    /\ \A i \in DOMAIN source.data : source.data[i][4] = 255
    /\ options.edgeType = "rounded" /\ options.edgeWidth = 2
    /\ \E i \in DOMAIN processed.data :
          ~OnRing(source, i) /\ processed.data[i][1] > 0 /\ distanceField[i] = Num(1)

(***************************************************************************)
(* C17: for a fully transparent raster, with every style and every         *)
(* combination of the DPI and smoothing toggles, the mask is entirely      *)
(* false, the distance field (when computed) is -1 everywhere, every depth *)
(* of the returned raster is 0, and every vertex of the mesh built from it *)
(* has Z = 0 for every modelHeight.                                        *)
(***************************************************************************)
FullyTransparent(img) == \A i \in DOMAIN img.data : img.data[i][4] = 0

C17_TransparentStaysFlat ==
    (ppc # "start" /\ FullyTransparent(source)) =>
        /\ \A i \in DOMAIN source.data :
              ~ExtractSmartContour(source)[i] /\ processed.data[i] = <<0, 0, 0, 0>>
        /\ distanceField # <<>> =>
              \A i \in DOMAIN distanceField : distanceField[i] = Sentinel
        /\ ppc = "returned" =>
              \A i \in DOMAIN output.data :
                  output.data[i][1] = 0 /\ output.data[i][2] = 0 /\ output.data[i][3] = 0
        /\ mpc = "built" =>
              \A v \in 1..Len(geometry.vertices) : geometry.vertices[v][3] = RatOf(0)

\* The mesh of the upscaled, smoothed depth map of a transparent raster.
C17_Witness ==
    /\ mpc = "built"
    /\ FullyTransparent(source)
    /\ toggles.enableDPIOptimization
    /\ toggles.enableEdgeSmoothing
    /\ output.width > source.width
    /\ distanceField # <<>>
    /\ props.modelHeight = 5
    /\ Len(geometry.vertices) > 1

(***************************************************************************)
(* C18: intelligentEdgeSmoothing changes only near-edge pixels: a pixel    *)
(* none of whose 8 neighbours (read as 0 outside the raster) differs from  *)
(* it by more than 8 in the input keeps its R, G and B, and every pixel    *)
(* keeps its alpha.                                                        *)
(***************************************************************************)
DepthAt(img, x, y) ==
    IF x \in 0..(img.width - 1) /\ y \in 0..(img.height - 1)
    THEN img.data[y * img.width + x][1]
    ELSE 0

NearEdge(img, i) ==
    LET x == i % img.width
        y == i \div img.width
    IN  \E dx \in -1..1, dy \in -1..1 :
            /\ <<dx, dy>> # <<0, 0>>
            /\ \/ DepthAt(img, x + dx, y + dy) - DepthAt(img, x, y) > 8
               \/ DepthAt(img, x, y) - DepthAt(img, x + dx, y + dy) > 8

C18_OnlyNearEdgeChanged ==
    (ppc = "returned" /\ source = <<>>) =>
        /\ output.width = processed.width /\ output.height = processed.height
        /\ \A i \in DOMAIN processed.data :
              /\ output.data[i][4] = processed.data[i][4]
              /\ ~NearEdge(processed, i) => output.data[i] = processed.data[i]

\* A smoothed raster with a changed pixel and an untouched visible pixel
\* whose R, G and B differ.
C18_Witness ==
    /\ ppc = "returned"
    /\ source = <<>>
    /\ \E i \in DOMAIN processed.data : output.data[i] # processed.data[i]
    /\ \E i \in DOMAIN processed.data :
          /\ ~NearEdge(processed, i)
          /\ processed.data[i][4] > 0
          /\ processed.data[i][1] # processed.data[i][2]

(***************************************************************************)
(* C19: for a strength in (0, 1] the smoothing kernel is 3 x 3 when the    *)
(* strength is at most 0.3, 5 x 5 when it is above 0.3 and at most 0.7,    *)
(* and 7 x 7 otherwise; exactly ceil(4 * strength) passes run, between 1   *)
(* and 4.                                                                  *)
(***************************************************************************)
ClaimedSide(s) == IF s <= 30 THEN 3 ELSE IF s <= 70 THEN 5 ELSE 7

ClaimedPasses(s) == CHOOSE n \in 1..4 : 100 * (n - 1) < 4 * s /\ 4 * s <= 100 * n

RECURSIVE AfterPasses(_, _, _)
\* The raster data after n passes over img at strength s.
AfterPasses(img, s, n) ==
    IF n = 0 THEN img.data
    ELSE LET edge == [i \in DOMAIN img.data |->
                         SmoothIsEdgePixel(img, i % img.width, i \div img.width)]
             smooth == [i \in DOMAIN img.data |->
                           GetSmoothValue(img, i % img.width, i \div img.width, s)]
         IN  SmoothPass(img, edge, smooth, AfterPasses(img, s, n - 1), s)

C19_KernelAndPasses ==
    (ppc = "returned" /\ source = <<>> /\ toggles.smoothingStrength \in 1..100) =>
        LET s == toggles.smoothingStrength
        IN  /\ 2 * KernelSize(s) + 1 = ClaimedSide(s)
            /\ Len(Weights(KernelSize(s))) = ClaimedSide(s)
            /\ \A r \in 1..ClaimedSide(s) : Len(Weights(KernelSize(s))[r]) = ClaimedSide(s)
            /\ IterationCount(s) = ClaimedPasses(s)
            /\ output.data = AfterPasses(processed, s, ClaimedPasses(s))

\* Strength 0.7, the upper boundary of the 5 x 5 tier: three passes, the
\* third of which still changes the raster.
C19_Witness ==
    /\ ppc = "returned"
    /\ source = <<>>
    /\ toggles.smoothingStrength = 70
    /\ output.data # AfterPasses(processed, 70, 2)

(***************************************************************************)
(* C20: edgePreservingUpscale with factor k returns a raster of            *)
(* round(width * k) x round(height * k) pixels.  A destination pixel whose *)
(* back-mapped source position has, in its 3 x 3 neighbourhood, a depth    *)
(* differing from the centre by more than 10 copies the nearest source     *)
(* pixel in all four channels; every other pixel is the rounded bilinear   *)
(* interpolation of the four surrounding source pixels.  Every output      *)
(* channel value lies between the minimum and the maximum of that channel  *)
(* in the source, and a constant raster upscales to a constant raster.     *)
(***************************************************************************)
\* The integer nearest to n / d, halves going up.
Nearest(n, d) == CHOOSE r \in 0..(n + 1) : 2 * r * d <= 2 * n + d /\ 2 * n + d < 2 * (r + 1) * d

Clamped(v, last) == IF v < 0 THEN 0 ELSE IF v > last THEN last ELSE v

SourceAt(img, x, y) ==
    img.data[Clamped(y, img.height - 1) * img.width + Clamped(x, img.width - 1)]

\* The source cell holding the back-mapped position of destination (x, y)
\* has a neighbour whose depth is more than 10 away.
BackMappedOnEdge(img, k, x, y) ==
    LET cx == (x * k[2]) \div k[1]
        cy == (y * k[2]) \div k[1]
    IN  \E dx \in -1..1, dy \in -1..1 :
            \/ SourceAt(img, cx + dx, cy + dy)[1] - SourceAt(img, cx, cy)[1] > 10
            \/ SourceAt(img, cx, cy)[1] - SourceAt(img, cx + dx, cy + dy)[1] > 10

\* Bilinear interpolation of channel c at the back-mapped position, rounded.
Interpolated(img, k, x, y, c) ==
    LET cx == (x * k[2]) \div k[1]
        cy == (y * k[2]) \div k[1]
        fx == x * k[2] - cx * k[1]
        fy == y * k[2] - cy * k[1]
        top == SourceAt(img, cx, cy)[c] * (k[1] - fx) + SourceAt(img, cx + 1, cy)[c] * fx
        bottom == SourceAt(img, cx, cy + 1)[c] * (k[1] - fx)
                      + SourceAt(img, cx + 1, cy + 1)[c] * fx
    IN  Nearest(top * (k[1] - fy) + bottom * fy, k[1] * k[1])

ChannelValues(img, c) == {img.data[i][c] : i \in DOMAIN img.data}

C20_UpscaleContract ==
    (ppc = "returned" /\ "scaleFactor" \in DOMAIN toggles) =>
        LET k == toggles.scaleFactor
        IN  /\ output.width = Nearest(processed.width * k[1], k[2])
            /\ output.height = Nearest(processed.height * k[1], k[2])
            /\ DOMAIN output.data = 0..(output.width * output.height - 1)
            /\ \A i \in DOMAIN output.data :
                  LET x == i % output.width
                      y == i \div output.width
                  IN  /\ IF BackMappedOnEdge(processed, k, x, y)
                         THEN output.data[i] =
                                  SourceAt(processed, Nearest(x * k[2], k[1]),
                                           Nearest(y * k[2], k[1]))
                         ELSE \A c \in 1..4 :
                                  output.data[i][c] = Interpolated(processed, k, x, y, c)
                      /\ \A c \in 1..4 :
                            /\ \E v \in ChannelValues(processed, c) : v <= output.data[i][c]
                            /\ \E v \in ChannelValues(processed, c) : output.data[i][c] <= v
            /\ (\A c \in 1..4 : Cardinality(ChannelValues(processed, c)) = 1) =>
                  \A i \in DOMAIN output.data : output.data[i] = processed.data[0]

\* An upscaled raster holding both a copied edge pixel and a pixel whose
\* interpolated depth appears nowhere in the source.
C20_Witness ==
    /\ ppc = "returned"
    /\ "scaleFactor" \in DOMAIN toggles
    /\ output.width > processed.width
    /\ \E i \in DOMAIN output.data :
          BackMappedOnEdge(processed, toggles.scaleFactor, i % output.width, i \div output.width)
    /\ \E i \in DOMAIN output.data :
          /\ ~BackMappedOnEdge(processed, toggles.scaleFactor, i % output.width,
                               i \div output.width)
          /\ output.data[i][1] \notin ChannelValues(processed, 1)

(***************************************************************************)
(* C21: for every depth raster and integer factor k >= 1, downsampling the *)
(* upscaled raster back to the original size gives a raster of the         *)
(* original dimensions that differs from the original at every pixel and   *)
(* channel by no more than a small tolerance, and is exact on a constant   *)
(* raster.  The tolerance is taken as the largest depth difference the     *)
(* upscaler interpolates across.                                           *)
(***************************************************************************)
RoundTripTolerance == 10

C21_RoundTripWithinTolerance ==
    ppc = "downsampled" =>
        /\ output.width = processed.width /\ output.height = processed.height
        /\ \A i \in DOMAIN processed.data : \A c \in 1..4 :
              Abs(output.data[i][c] - processed.data[i][c]) <= RoundTripTolerance
        /\ (\A c \in 1..4 : Cardinality(ChannelValues(processed, c)) = 1) =>
              output = processed

(***************************************************************************)
(* C22: resolution normalisation changes pixel dimensions but not physical *)
(* size.  When optimizeDepthMapDPI upscales (currentDPI < targetDPI) the   *)
(* output is round(w * targetDPI / currentDPI) wide and                    *)
(* round(h * targetDPI / currentDPI) high, never smaller than its input;   *)
(* the mesh built from it, when its grid is at least 2 x 2, spans X in     *)
(* [-5, 5] and Y in [-5r, 5r] with r = originalHeight / originalWidth of   *)
(* the source raster, whatever the pixel dimensions and the sampling step. *)
(***************************************************************************)
RatLessEq(a, b) == a.n * b.d <= b.n * a.d

Coordinates(axis) == {geometry.vertices[v][axis] : v \in 1..Len(geometry.vertices)}

Spans(values, low, high) ==
    /\ low \in values
    /\ high \in values
    /\ \A a \in values : RatLessEq(low, a) /\ RatLessEq(a, high)

C23_DequeuedInDistanceOrder ==
    \A i \in 1..queueIndex : \A j \in i..queueIndex :
        LessEq(queue[i].dist, queue[j].dist)

(***************************************************************************)
(* C24: calculateDistanceFieldFast terminates.  After seeding, a pixel is  *)
(* enqueued only when its stored distance strictly decreases to a value    *)
(* <= maxDistance; an entry with dist >= maxDistance is not expanded; the  *)
(* queue is eventually exhausted; and the number of times one pixel is     *)
(* enqueued is bounded by a number that depends on maxDistance only, the   *)
(* number of distances a + b*sqrt(2) in [0, maxDistance].                  *)
(***************************************************************************)
EnqueueBound ==
    Cardinality({d \in (0..maxDistance[1]) \X (0..maxDistance[1]) : LessEq(d, maxDistance)})

TimesEnqueued(i) ==
    Cardinality({k \in 1..Len(queue) : queue[k].y * width + queue[k].x = i})

PushesOnlyImprovements ==
    pc = "loop" =>
        /\ Len(queue') >= Len(queue)
        /\ \A k \in 1..Len(queue) : queue'[k] = queue[k]
        /\ \A k \in (Len(queue) + 1)..Len(queue') :
              LET i == queue'[k].y * width + queue'[k].x
              IN  /\ contour[i]
                  /\ Less(queue'[k].dist, distances[i])
                  /\ LessEq(distances'[i], queue'[k].dist)
                  /\ LessEq(queue'[k].dist, maxDistance)
        /\ (queueIndex < Len(queue) /\ LessEq(maxDistance, queue[queueIndex + 1].dist)) =>
              queue' = queue /\ distances' = distances

C24_Terminates ==
    /\ [][PushesOnlyImprovements]_vars
    /\ [](pc # "seed" => \A i \in Pixels(width, height) : TimesEnqueued(i) <= EnqueueBound)
    /\ <>(pc = "done" /\ queueIndex = Len(queue))

\* The loop has ended after some pixel was enqueued three times.
C24_Witness ==
    /\ pc = "done"
    /\ queueIndex = Len(queue)
    /\ \E i \in Pixels(width, height) : TimesEnqueued(i) >= 3

(***************************************************************************)
(* C25: in processImageWithEdgesOptimized with DPI optimization and        *)
(* smoothing both enabled and currentDPI < targetDPI, the stages run in    *)
(* the order edge profile, upscale, smoothing, each once: the returned     *)
(* raster is the smoothing of the upscaled edge-profile raster.            *)
(***************************************************************************)
UpscaleThenSmooth(img, targetDPI, smoothingStrength) ==
    IntelligentEdgeSmoothing(PerformDPIOptimization(img, targetDPI, EstimateDepthMapDPI(img)),
                             smoothingStrength)

C25_SmoothingAfterUpscale ==
    (/\ ppc = "returned"
     /\ toggles.enableDPIOptimization
     /\ toggles.enableEdgeSmoothing
     /\ EstimateDepthMapDPI(processed) < toggles.targetDPI)
    => output = UpscaleThenSmooth(processed, toggles.targetDPI, toggles.smoothingStrength)

(***************************************************************************)
(* C26: every grid quad emits exactly the triangles (topLeft, bottomLeft,  *)
(* topRight) and (topRight, bottomLeft, bottomRight), the same for all     *)
(* quads.  With positive physical width and height every triangle normal   *)
(* has a strictly positive Z component, whatever the depth raster; for a   *)
(* raster of constant depth every vertex normal is exactly (0, 0, 1).      *)
(***************************************************************************)
ClaimedQuad(gridWidth, x, y) ==
    <<y * gridWidth + x, (y + 1) * gridWidth + x, y * gridWidth + (x + 1),
      y * gridWidth + (x + 1), (y + 1) * gridWidth + x, (y + 1) * gridWidth + (x + 1)>>

DepthOfPixel(pixel) == IF pixel[4] > 32 THEN pixel[1] ELSE 0

ConstantDepth(img) ==
    \A i \in DOMAIN img.data : \A j \in DOMAIN img.data :
        DepthOfPixel(img.data[i]) = DepthOfPixel(img.data[j])

\* The unit vector a term stands for is (0, 0, 1).
StraightUp(term) == term[1].n = 0 /\ term[2].n = 0 /\ term[3].n > 0 /\ term[3].d > 0

C26_WindingAndNormals ==
    mpc = "built" =>
        LET gw == geometry.gridWidth
            gh == geometry.gridHeight
            quads == IF gw >= 2 /\ gh >= 2 THEN (gw - 1) * (gh - 1) ELSE 0
        IN  /\ Len(geometry.faces) = 6 * quads
            /\ \A y \in 0..(gh - 2) : \A x \in 0..(gw - 2) :
                  SubSeq(geometry.faces, 6 * (y * (gw - 1) + x) + 1,
                         6 * (y * (gw - 1) + x) + 6) = ClaimedQuad(gw, x, y)
            /\ (Physical(props.originalWidth, props.width) > 0
                    /\ Physical(props.originalHeight, props.height) > 0) =>
                  \A t \in 0..(2 * quads - 1) :
                      LET nn == TriangleNormal(geometry.vertices, geometry.faces[3 * t + 1],
                                               geometry.faces[3 * t + 2],
                                               geometry.faces[3 * t + 3])
                      IN  ~IsNaN(nn[3]) /\ nn[3].n > 0 /\ nn[3].d > 0
            /\ ConstantDepth(imageData) =>
                  \A v \in 1..Len(geometry.vertices) :
                      \/ geometry.normals[v].kind = "default"
                      \/ /\ geometry.normals[v].kind = "unit"
                         /\ \A j \in 1..Len(geometry.normals[v].sum) :
                               StraightUp(geometry.normals[v].sum[j])

\* A mesh of several quads over a raster whose depth varies: some triangle
\* is tilted.
C26_Witness ==
    /\ mpc = "built"
    /\ geometry.gridWidth >= 3 /\ geometry.gridHeight >= 3
    /\ ~ConstantDepth(imageData)
    /\ \E v \in 1..Len(geometry.vertices) :
          /\ geometry.normals[v].kind = "unit"
          /\ \E j \in 1..Len(geometry.normals[v].sum) : geometry.normals[v].sum[j][1].n # 0

(***************************************************************************)
(* C27: in intelligentEdgeSmoothing the near-edge test and the kernel      *)
(* value S of a pixel are computed from the input raster in every pass;    *)
(* only the blend operand comes from the previous pass.  A near-edge       *)
(* pixel has v_n after n passes, with v_0 its input value and              *)
(* v_(k+1) = round(v_k * (1 - m) + S * m), m = sqrt(strength); every other *)
(* pixel keeps its value.  With strength 1 the result after any number of  *)
(* passes is the result after one pass.                                    *)
(***************************************************************************)
MaxPasses == 6

\* round(v * (1 - m) + S * m) for S = ws / tw and m = sqrt(s / 100): the
\* integer r with r - 1/2 <= v + m * (S - v) < r + 1/2.
RoundedMix(v, ws, tw, s) ==
    LET d == ws - v * tw
        lo == MinInt(v, ws \div tw) - 1
        hi == MaxInt(v, ws \div tw) + 1
    IN  CHOOSE r \in lo..hi :
            /\ LeSqrtOf(10 * tw * (2 * r - 2 * v - 1), 2 * d, s)
            /\ ~LeSqrtOf(10 * tw * (2 * r - 2 * v + 1), 2 * d, s)

RECURSIVE ValueAfter(_, _, _, _, _)
\* v_n of a pixel with input value v and kernel value ws / tw
ValueAfter(v, ws, tw, s, n) ==
    IF n = 0 THEN v ELSE RoundedMix(ValueAfter(v, ws, tw, s, n - 1), ws, tw, s)

RECURSIVE MorePasses(_, _, _, _, _, _)
\* The raster data after n further passes over data.
MorePasses(img, edge, smooth, data, s, n) ==
    IF n = 0 THEN data
    ELSE MorePasses(img, edge, smooth, SmoothPass(img, edge, smooth, data, s), s, n - 1)

C27_BlendFromPreviousPassOnly ==
    (ppc = "returned" /\ source = <<>> /\ toggles.smoothingStrength \in 1..100) =>
        LET s == toggles.smoothingStrength
            w == processed.width
        IN  /\ \A i \in DOMAIN processed.data :
                  IF SmoothIsEdgePixel(processed, i % w, i \div w)
                  THEN LET sv == GetSmoothValue(processed, i % w, i \div w, s)
                           vn == ValueAfter(processed.data[i][1], sv[1], sv[2], s,
                                            IterationCount(s))
                       IN  output.data[i] = <<vn, vn, vn, processed.data[i][4]>>
                  ELSE output.data[i] = processed.data[i]
            /\ s = 100 =>
                  LET edge == Tabulate([i \in DOMAIN processed.data |->
                                  SmoothIsEdgePixel(processed, i % w, i \div w)])
                      smooth == Tabulate([i \in DOMAIN processed.data |->
                                    IF edge[i] THEN GetSmoothValue(processed, i % w, i \div w, s)
                                    ELSE <<0, 0>>])
                      one == SmoothPass(processed, edge, smooth, processed.data, s)
                  IN  \A n \in 1..MaxPasses :
                          MorePasses(processed, edge, smooth, one, s, n - 1) = one

\* Three passes of which the second and the third still move a pixel.
C27_Witness ==
    /\ ppc = "returned"
    /\ source = <<>>
    /\ toggles.smoothingStrength \in 51..75
    /\ AfterPasses(processed, toggles.smoothingStrength, 1)
           # AfterPasses(processed, toggles.smoothingStrength, 2)
    /\ AfterPasses(processed, toggles.smoothingStrength, 2) # output.data

(***************************************************************************)
(* C28: for every strength in (0, 1] and every input raster the kernel     *)
(* average of a near-edge pixel includes only samples whose value differs  *)
(* from the centre by less than 30 + 70 * strength; the centre qualifies,  *)
(* so the total weight is never 0.  Hence every output depth is in         *)
(* 0..255 and differs from the input depth of the same pixel by at most    *)
(* ceil(30 + 70 * strength), after any number of passes.                   *)
(***************************************************************************)
ClaimedLimit(s) == (3000 + 70 * s + 99) \div 100

\* The kernel cells around (x, y) whose sample is within the threshold.
SimilarCells(img, x, y, s) ==
    {d \in (-KernelSize(s)..KernelSize(s)) \X (-KernelSize(s)..KernelSize(s)) :
        100 * Abs(GetPixelValue(img, x + d[1], y + d[2]) - GetPixelValue(img, x, y))
            < 3000 + 70 * s}

RECURSIVE WeightOver(_, _)
WeightOver(cells, k) ==
    IF cells = {} THEN 0
    ELSE LET d == CHOOSE e \in cells : TRUE
         IN  Weights(k)[d[2] + k + 1][d[1] + k + 1] + WeightOver(cells \ {d}, k)

WithinLimit(data, img, s) ==
    \A i \in DOMAIN img.data :
        /\ data[i][1] \in 0..255
        /\ Abs(data[i][1] - img.data[i][1]) <= ClaimedLimit(s)

RECURSIVE StaysWithin(_, _, _, _, _, _)
\* The rasters after 1..n further passes over data are within the limit.
StaysWithin(img, edge, smooth, data, s, n) ==
    \/ n = 0
    \/ \E next \in {SmoothPass(img, edge, smooth, data, s)} :
          /\ WithinLimit(next, img, s)
          /\ StaysWithin(img, edge, smooth, next, s, n - 1)

C28_BoundedChange ==
    (ppc = "returned" /\ source = <<>> /\ toggles.smoothingStrength \in 1..100) =>
        LET s == toggles.smoothingStrength
            w == processed.width
            edge == Tabulate([i \in DOMAIN processed.data |->
                        SmoothIsEdgePixel(processed, i % w, i \div w)])
            smooth == Tabulate([i \in DOMAIN processed.data |->
                          IF edge[i] THEN GetSmoothValue(processed, i % w, i \div w, s)
                          ELSE <<0, 0>>])
        IN  /\ \A i \in DOMAIN processed.data : edge[i] =>
                  /\ <<0, 0>> \in SimilarCells(processed, i % w, i \div w, s)
                  /\ smooth[i][2] = WeightOver(SimilarCells(processed, i % w, i \div w, s),
                                               KernelSize(s))
                  /\ smooth[i][2] > 0
                  /\ 100 * Abs(smooth[i][1] - processed.data[i][1] * smooth[i][2])
                         < (3000 + 70 * s) * smooth[i][2]
            /\ WithinLimit(output.data, processed, s)
            /\ StaysWithin(processed, edge, smooth, processed.data, s, MaxPasses)

\* A near-edge pixel whose kernel leaves a sample out and whose depth has
\* changed.
C28_Witness ==
    /\ ppc = "returned"
    /\ source = <<>>
    /\ toggles.smoothingStrength \in 1..100
    /\ \E i \in DOMAIN processed.data :
          /\ SmoothIsEdgePixel(processed, i % processed.width, i \div processed.width)
          /\ Cardinality(SimilarCells(processed, i % processed.width, i \div processed.width,
                                      toggles.smoothingStrength))
                 < (2 * KernelSize(toggles.smoothingStrength) + 1)
                       * (2 * KernelSize(toggles.smoothingStrength) + 1)
          /\ output.data[i][1] # processed.data[i][1]

(***************************************************************************)
(* C29: in App every change of edgeType, edgeWidth, chamferAngle, the DPI  *)
(* toggle, target DPI, the smoothing toggle or smoothing strength while a  *)
(* source raster is loaded cancels the pending debounce timer and arms a   *)
(* new 300 ms timer.  Hence at most one timer is pending in any reachable  *)
(* state; a burst of changes less than 300 ms apart causes exactly one     *)
(* pipeline run, which uses the parameter values of the last change; and   *)
(* isDebouncing is true from the first change until that run starts.       *)
(***************************************************************************)
OneTimerOfLastChange ==
    /\ Cardinality(timers) <= 1
    /\ \A t \in timers :
          /\ t.id = app.debounceTimer
          /\ t.due = hist.lastArm + DebounceDelay
          /\ t.params = app.params
          /\ t.imageData = app.originalImageData
    /\ app.isDebouncing <=> timers # {}
    /\ hist.runsSinceArm <= 1
    /\ (hist.lastArm >= 0 /\ hist.runsSinceArm = 0) =>
          timers # {} /\ now < hist.lastArm + DebounceDelay + TickMs

ChangeRearms ==
    (app # <<>> /\ app'.params # app.params /\ app.originalImageData # <<>>) =>
        /\ timers' \cap timers = {}
        /\ timers' = {[id |-> hist.nextId, due |-> now + DebounceDelay,
                       imageData |-> app.originalImageData, params |-> app'.params]}
        /\ app'.isDebouncing
        /\ app'.processedImages = app.processedImages

RunUsesLastValues ==
    (app # <<>> /\ hist'.runsSinceArm = hist.runsSinceArm + 1) =>
        /\ hist.runsSinceArm = 0
        /\ now >= hist.lastArm + DebounceDelay
        /\ hist'.lastCall = CallOf(app.originalImageData, app.params)
        /\ app'.processedImages = ProcessImages(app.originalImageData, app.params)
        /\ app.isDebouncing /\ ~app'.isDebouncing
        /\ timers' = {}

C29_Debounce ==
    /\ [](app # <<>> => OneTimerOfLastChange)
    /\ [][ChangeRearms]_vars
    /\ [][RunUsesLastValues]_vars

\* A raster is loaded, two parameters are changed less than 300 ms after
\* each other, and the one run of that burst has used the last values.
C29_Witness ==
    /\ app # <<>>
    /\ app.originalImageData # <<>>
    /\ hist.changes = 2
    /\ hist.lastArm > 0
    /\ hist.lastArm < DebounceDelay
    /\ hist.runsSinceArm = 1
    /\ hist.lastCall = CallOf(app.originalImageData, app.params)
    /\ app.params.targetDPI # InitialParams.targetDPI
    /\ app.params.edgeType # InitialParams.edgeType
    /\ ~app.isDebouncing

(***************************************************************************)
(* C30: generateSTLFromGrayscale emits text that begins with               *)
(* 'solid generated_model' and ends with 'endsolid generated_model', in    *)
(* which every triangle is one facet record with one normal line and       *)
(* exactly three vertex lines.  For each pixel quad the triangle           *)
(* (v0, v1, v2) is emitted iff one of its three corner heights is > 0, and *)
(* the triangle (v1, v3, v2) likewise; so there are at most                *)
(* 2 * (width - 1) * (height - 1) facets, none for an all-black raster,    *)
(* and every facet normal has unit length and a strictly positive z.       *)
(***************************************************************************)
\* The lines between the first and the last.
FacetLines == SubSeq(stlContent, 2, Len(stlContent) - 1)

FacetCount == IF FacetLines = << <<"">> >> THEN 0 ELSE Len(FacetLines) \div 7

\* The three vertex lines of facet f (from 0).
FacetVertices(f) == SubSeq(FacetLines, 7 * f + 3, 7 * f + 5)

\* The vertex line of pixel (x, y) of the exported raster: 0.1 mm a pixel,
\* the height grayscale / 255 * maxHeight, all rounded to millionths.
CornerLine(x, y) ==
    LET g == exportOptions.grayscaleData
    IN  <<"vertex", x * 100000, y * 100000,
          (g.data[y * g.width + x][1] * exportOptions.height * 40000 + 51) \div 102>>

CornerHigh(x, y) ==
    LET g == exportOptions.grayscaleData
    IN  g.data[y * g.width + x][1] * exportOptions.height > 0

\* The triangles the claim has emitted, as triples of vertex lines.
ClaimedFacets ==
    LET g == exportOptions.grayscaleData
    IN  {<<CornerLine(x, y), CornerLine(x + 1, y), CornerLine(x, y + 1)>> :
            <<x, y>> \in {q \in (0..(g.width - 2)) \X (0..(g.height - 2)) :
                           CornerHigh(q[1], q[2]) \/ CornerHigh(q[1] + 1, q[2])
                               \/ CornerHigh(q[1], q[2] + 1)}}
        \cup {<<CornerLine(x + 1, y), CornerLine(x + 1, y + 1), CornerLine(x, y + 1)>> :
                <<x, y>> \in {q \in (0..(g.width - 2)) \X (0..(g.height - 2)) :
                               CornerHigh(q[1] + 1, q[2]) \/ CornerHigh(q[1], q[2] + 1)
                                   \/ CornerHigh(q[1] + 1, q[2] + 1)}}

====
